---------------------------- MODULE Spec2Model ----------------------------
(***************************************************************************)
(* A model of the statistics aggregator of src/lib/github.ts: the TTL      *)
(* cache (getCached / setCache), the per-repository contributor-statistics *)
(* fetch with its retry loop (getContributorStatsForRepo), the bounded     *)
(* concurrency runner (mapWithConcurrency) and the aggregation entry point *)
(* (getGitHubStatistics).                                                  *)
(*                                                                         *)
(* Time is Date.now() in milliseconds.  An action is the code that runs    *)
(* between two suspension points (await) of one asynchronous function.     *)
(*                                                                         *)
(* The specifications share the variables:                                 *)
(*   CacheSpec  the cache alone, driven by arbitrary lookups and writes;   *)
(*   MapSpec    mapWithConcurrency alone, with an arbitrary fn;            *)
(*   Spec       calls of getGitHubStatistics, one after another;           *)
(*   ConcSpec   the same actions with two calls in flight at once;         *)
(*   TimedSpec  calls one after another while the clock advances;          *)
(*   ListSpec   calls whose repository listing may stop at a failed        *)
(*              page;                                                      *)
(*   PageSpec   paginateRest alone;                                        *)
(*   GraphSpec  getAllTimeContributions alone, query by query;             *)
(*   YearSpec   yearWindows alone, window by window;                       *)
(*   WarmSpec   calls whose prewarm requests are followed;                 *)
(*   HitSpec    calls one after another, with or without token and clock;  *)
(*   BurstSpec  as WarmSpec, over an account of three repositories;        *)
(*   PrSpec     getMergedPrLocChanged of the older variant, page by page;  *)
(*   CommitSpec getCommitLocChangedFromDefaultBranches, likewise;          *)
(*   ViewsSpec  getRepoViews14Days of the older variant, repository by     *)
(*              repository;                                                *)
(*   MergeSpec  the merge of the accessible and the contributed-to         *)
(*              listing of the older variant;                              *)
(*   MapLiveSpec mapWithConcurrency with every fn resolving, under weak    *)
(*              fairness.                                                  *)
(***************************************************************************)
EXTENDS Integers, Sequences, FiniteSets, TLC

VARIABLES
    cache,      \* the module-level Map: key -> [data, expiry]; DOMAIN = keys present
    now,        \* Date.now()
    ticks,      \* how many times the clock has advanced (bounds the run)
    lastGet,    \* CacheSpec: what the last getCached saw and returned
    cfg,        \* the bounds of the specification being run
    token,      \* whether GITHUB_TOKEN was set when the latest call read it
    starts,     \* how many getGitHubStatistics calls were started
    pc,         \* per call: where getGitHubStatistics stands
    opts,       \* per call: username and options
    items,      \* per call: reposToScan
    idx,        \* per call: the shared cursor of mapWithConcurrency
    results,    \* per call: the result array of mapWithConcurrency
    wk,         \* per call: the workers of mapWithConcurrency
    ret,        \* per call: the record returned
    mItems,     \* MapSpec: items
    mLimit,     \* MapSpec: limit
    mIdx,       \* MapSpec: idx
    mResults,   \* MapSpec: results
    mWk,        \* MapSpec: the workers
    mCalls,     \* MapSpec: how many times fn was invoked per index
    mStatus,    \* MapSpec: "running" | "returned" | "threw"
    pPages,     \* PageSpec: what upstream answers for page 1, 2, ...
    pMax,       \* PageSpec: maxPages
    pI,         \* PageSpec: the loop counter i
    pOut,       \* PageSpec: out
    pReqs,      \* PageSpec: the pages requested so far, in order
    pStatus,    \* PageSpec: "idle" | "wait" | "returned" | "threw"
    gLogin,     \* GraphSpec: the login getAllTimeContributions is called with
    gPc,        \* GraphSpec: "idle" | "created" | "windows" | "returned"
    gWin,       \* GraphSpec: per yearly window, what its query settled with
    gSeen,      \* GraphSpec: the responses received, the creation query's first
    gRet,       \* GraphSpec: the figure returned
    gCalls,     \* GraphSpec: how many calls were made
    yFrom,      \* YearSpec: fromDate
    yTo,        \* YearSpec: toDate
    yWindows,   \* YearSpec: the windows returned
    yStatus,    \* YearSpec: "idle" | "returned"
    pr,         \* PrSpec: getMergedPrLocChanged, its inputs and its locals
    ch,         \* CommitSpec: getCommitLocChangedFromDefaultBranches, likewise
    vw,         \* ViewsSpec: getRepoViews14Days, likewise
    mg,         \* MergeSpec: the merge of the two listings, likewise
    warm        \* per call slot: the requests of prewarmContributorStats

cacheVars == <<cache, now, ticks, lastGet>>
runVars == <<token, starts, pc, opts, items, idx, results, wk, ret>>
mapVars == <<mItems, mLimit, mIdx, mResults, mWk, mCalls, mStatus>>
pageVars == <<pPages, pMax, pI, pOut, pReqs, pStatus>>
graphVars == <<gLogin, gPc, gWin, gSeen, gRet, gCalls>>
yearVars == <<yFrom, yTo, yWindows, yStatus>>
locVars == <<pr, ch, vw, mg>>
auxVars == <<pageVars, graphVars, yearVars, locVars, warm>>
vars == <<cache, now, ticks, lastGet, cfg, token, starts, pc, opts, items, idx,
          results, wk, ret, mItems, mLimit, mIdx, mResults, mWk, mCalls, mStatus,
          auxVars>>

\* paginateRest, getAllTimeContributions and yearWindows not in use
PageIdle ==
    /\ pPages = <<>> /\ pMax = 0 /\ pI = 0 /\ pOut = <<>> /\ pReqs = <<>>
    /\ pStatus = "returned"

GraphIdle ==
    /\ gLogin = "" /\ gPc = "returned" /\ gWin = <<>> /\ gSeen = <<>> /\ gRet = [status |-> "unset"]
    /\ gCalls = 0

YearIdle ==
    /\ yFrom = 0 /\ yTo = 0 /\ yWindows = <<>> /\ yStatus = "returned"

\* the functions of the older variants not in use
LocIdle ==
    /\ pr = [status |-> "unused"]
    /\ ch = [status |-> "unused"]
    /\ vw = [status |-> "unused"]
    /\ mg = [status |-> "unused"]

-----------------------------------------------------------------------------
(* Bounds *)

MaxTicks == 2
MaxStarts == 2
MaxRepos == 2
ConcMaxRepos == 1
TimedMaxStarts == 2
MapMaxLen == 4
MapMaxLimit == 3

-----------------------------------------------------------------------------
(* The cache: src/lib/github.ts 4-26 *)

CACHE_TTL == 6 * 60 * 60 * 1000
SHORT_CACHE_TTL == 5 * 60 * 1000

\* JavaScript null, as a record so that it compares with every cached value
Null == [tag |-> "null"]

\* The clock advances by one of these amounts
TickSteps == {1, SHORT_CACHE_TTL, CACHE_TTL}

\* getCached with the comparison turned around at the boundary
getCachedGe(c, key, t) ==
    IF key \notin DOMAIN c THEN Null
    ELSE IF t >= c[key].expiry THEN Null
    ELSE c[key].data

\* getCached without the expiry test
getCachedForever(c, key, t) ==
    IF key \notin DOMAIN c THEN Null ELSE c[key].data

\* getCached's return value, on cache c at time t
getCached(c, key, t) ==
    IF key \notin DOMAIN c THEN Null
    ELSE IF t > c[key].expiry THEN Null
    ELSE c[key].data

\* a lookup that deletes every expired entry, not only the one looked up
getCachedEvictSweep(c, key, t) ==
    IF key \in DOMAIN c /\ t > c[key].expiry
    THEN [k \in {j \in DOMAIN c : ~(t > c[j].expiry)} |-> c[k]]
    ELSE c

\* the cache after getCached(key): cache.delete(key) when the entry is expired
getCachedEvict(c, key, t) ==
    IF key \in DOMAIN c /\ t > c[key].expiry
    THEN [k \in DOMAIN c \ {key} |-> c[k]]
    ELSE c

\* the cache after setCache(key, data, ttl)
setCache(c, key, data, ttl, t) ==
    [k \in DOMAIN c \cup {key} |->
        IF k = key THEN [data |-> data, expiry |-> t + ttl] ELSE c[k]]

EmptyCache == [k \in {} |-> Null]

-----------------------------------------------------------------------------
(* Upstream data *)

\* String.prototype.toLowerCase on the logins and the full names that occur
toLowerCase(s) ==
    CASE s \in {"alice", "Alice", "ALICE"} -> "alice"
      [] s \in {"bob", "Bob"} -> "bob"
      [] s \in {"o/a", "O/A"} -> "o/a"
      [] OTHER -> s

\* the usernames getGitHubStatistics is called with
Usernames == {"alice", "Alice", "bob"}

\* the login GET /user reports for the token
ViewerLogin == "Alice"

\* the i-th repository of GET /user/repos (sorted by pushed, newest first)
RepoRest(i) ==
    [full_name |-> <<"o", i>>, fork |-> (i = 2), stargazers_count |-> i, forks_count |-> 1]

\* the contributor statistics upstream holds for a repository, once computed:
\* author <<>> is a null author, <<l>> is {login: l}
StatsOf(fullName) ==
    CASE fullName[2] % 3 = 1 ->
           << [author |-> <<>>, total |-> 1, weeks |-> << [a |-> 9, d |-> 9] >>],
              [author |-> <<"ALICE">>, total |-> 3,
               weeks |-> << [a |-> 1, d |-> 2], [a |-> 4, d |-> 0] >>],
              [author |-> <<"alice">>, total |-> 5, weeks |-> << [a |-> 7, d |-> 7] >>] >>
      [] fullName[2] % 3 = 2 ->
           << [author |-> <<"Bob">>, total |-> 2, weeks |-> << [a |-> 3, d |-> 3] >>],
              [author |-> <<>>, total |-> 4, weeks |-> << >>] >>
      [] OTHER ->
           << [author |-> <<"Alice">>, total |-> 2, weeks |-> << [a |-> 10, d |-> 1] >>] >>

\* what upstream may answer to GET /repos/{owner}/{name}/stats/contributors:
\* 202 while computing, 200 with the statistics, 200 with a body that is no
\* array, an error with a JSON body, 204 (an empty repository) with no body
Responses ==
    { [status |-> 202, body |-> "none"],
      [status |-> 200, body |-> "array"],
      [status |-> 200, body |-> "object"],
      [status |-> 404, body |-> "object"],
      [status |-> 204, body |-> "none"] }

\* Response.ok
ResOk(resp) == resp.status >= 200 /\ resp.status <= 299

-----------------------------------------------------------------------------
(* restRequest: src/lib/github.ts 75-89 *)

\* "data" when res.json() is reached and parses; "undefined" for a 202, whose
\* body is not read; "throws" when res.json() rejects (no JSON in the body)
restRequest(resp) ==
    IF resp.status = 202 THEN "undefined"
    ELSE IF resp.body \in {"array", "object"} THEN "data"
    ELSE "throws"

-----------------------------------------------------------------------------
(* getContributorStatsForRepo: src/lib/github.ts 244-294 *)

retries == 2
delays == <<100, 250>>

Min(a, b) == IF a < b THEN a ELSE b
Max(a, b) == IF a > b THEN a ELSE b

\* the loop body with the last attempt one too early
HandleResponseEarly(fullName, attempt, resp) ==
    IF resp.status = 202
    THEN IF attempt = retries - 1
         THEN [kind |-> "return", out |-> [status |-> "pending"], ttl |-> SHORT_CACHE_TTL]
         ELSE [kind |-> "sleep", ms |-> delays[Min(attempt, Len(delays) - 1) + 1]]
    ELSE IF restRequest(resp) = "throws" THEN [kind |-> "throw"]
    ELSE IF ~ResOk(resp)
    THEN [kind |-> "return", out |-> [status |-> "failed"], ttl |-> SHORT_CACHE_TTL]
    ELSE IF resp.body # "array"
    THEN [kind |-> "return", out |-> [status |-> "failed"], ttl |-> SHORT_CACHE_TTL]
    ELSE [kind |-> "return", out |-> [status |-> "ok", stats |-> StatsOf(fullName)],
          ttl |-> CACHE_TTL]

\* the loop body caching a pending outcome with the long TTL
HandleResponseLongPending(fullName, attempt, resp) ==
    IF resp.status = 202
    THEN IF attempt = retries
         THEN [kind |-> "return", out |-> [status |-> "pending"], ttl |-> CACHE_TTL]
         ELSE [kind |-> "sleep", ms |-> delays[Min(attempt, Len(delays) - 1) + 1]]
    ELSE IF restRequest(resp) = "throws" THEN [kind |-> "throw"]
    ELSE IF ~ResOk(resp)
    THEN [kind |-> "return", out |-> [status |-> "failed"], ttl |-> SHORT_CACHE_TTL]
    ELSE IF resp.body # "array"
    THEN [kind |-> "return", out |-> [status |-> "failed"], ttl |-> SHORT_CACHE_TTL]
    ELSE [kind |-> "return", out |-> [status |-> "ok", stats |-> StatsOf(fullName)],
          ttl |-> CACHE_TTL]

\* the retry loop sleeping delays[0] after every 202
HandleResponseFirstDelay(fullName, attempt, resp) ==
    IF resp.status = 202
    THEN IF attempt = retries
         THEN [kind |-> "return", out |-> [status |-> "pending"], ttl |-> SHORT_CACHE_TTL]
         ELSE [kind |-> "sleep", ms |-> delays[1]]
    ELSE IF restRequest(resp) = "throws" THEN [kind |-> "throw"]
    ELSE IF ~ResOk(resp)
    THEN [kind |-> "return", out |-> [status |-> "failed"], ttl |-> SHORT_CACHE_TTL]
    ELSE IF resp.body # "array"
    THEN [kind |-> "return", out |-> [status |-> "failed"], ttl |-> SHORT_CACHE_TTL]
    ELSE [kind |-> "return", out |-> [status |-> "ok", stats |-> StatsOf(fullName)],
          ttl |-> CACHE_TTL]

\* one iteration of the retry loop, lines 259-289, on the response to attempt
\* number `attempt`: sleep and go round again, return an outcome (cached with
\* ttl), or throw out of restRequest
HandleResponse(fullName, attempt, resp) ==
    IF resp.status = 202
    THEN IF attempt = retries
         THEN [kind |-> "return", out |-> [status |-> "pending"], ttl |-> SHORT_CACHE_TTL]
         ELSE [kind |-> "sleep", ms |-> delays[Min(attempt, Len(delays) - 1) + 1]]
    ELSE IF restRequest(resp) = "throws" THEN [kind |-> "throw"]
    ELSE IF ~ResOk(resp)
    THEN [kind |-> "return", out |-> [status |-> "failed"], ttl |-> SHORT_CACHE_TTL]
    ELSE IF resp.body # "array"
    THEN [kind |-> "return", out |-> [status |-> "failed"], ttl |-> SHORT_CACHE_TTL]
    ELSE [kind |-> "return", out |-> [status |-> "ok", stats |-> StatsOf(fullName)],
          ttl |-> CACHE_TTL]

\* a worker of mapWithConcurrency: cur is the index it holds, attempt the
\* retry loop's counter, reqs the upstream requests of the fn call in progress,
\* slept the delay of the sleep in progress, out the outcome fn resolved with.
\* History, kept by the specifications that ask for it (cfg.trace): seen, the
\* responses the fn call has received, and looked, what its cache lookup found.
Worker(phase, cur, attempt, reqs, slept, out, seen, looked) ==
    [phase |-> phase, cur |-> cur, attempt |-> attempt, reqs |-> reqs,
     slept |-> slept, out |-> out, seen |-> seen, looked |-> looked]

NoLook == [had |-> FALSE, data |-> Null, expiry |-> 0, at |-> 0]

\* the entry a lookup of key finds in cache c at time t
Look(c, key, t) ==
    IF cfg.trace /\ key \in DOMAIN c
    THEN [had |-> TRUE, data |-> c[key].data, expiry |-> c[key].expiry, at |-> t]
    ELSE NoLook

\* lines 249-263: fn(items[cur]) up to its first await. A cached outcome is
\* returned without a request; otherwise attempt 0 is sent.
StartCall(c, t, cur, its) ==
    LET key == <<"contrib", its[cur + 1]>>
        cached == getCached(c, key, t)
    IN  [cache |-> getCachedEvict(c, key, t),
         w |-> IF cached # Null
               THEN Worker("ret", cur, 0, 0, 0, cached, <<>>, Look(c, key, t))
               ELSE Worker("req", cur, 0, 1, 0, Null, <<>>, Look(c, key, t))]

-----------------------------------------------------------------------------
(* mapWithConcurrency inside getGitHubStatistics: src/lib/github.ts 296-315 *)

\* an empty slot of new Array(items.length)
Unset == [status |-> "unset"]

\* whether slot i of a result array has been written
IsSet(res, i) == res[i] # Unset

\* idx++ that leaves the cursor where it is
PostIncrementStale(i) == i

\* line 306, idx++: the cursor after the worker has read it
PostIncrement(i) == i + 1

\* results[cur] = value that appends in completion order
StoreResultPush(res, cur, value) ==
    IF \E k \in DOMAIN res : res[k] = Unset
    THEN [res EXCEPT ![CHOOSE k \in DOMAIN res :
                         res[k] = Unset /\ \A j \in 1..(k - 1) : res[j] # Unset] = value]
    ELSE res

\* line 308: results[cur] = value
StoreResult(res, cur, value) == [res EXCEPT ![cur + 1] = value]

\* lines 306-308: cur = idx++; return when cur >= items.length, else call fn
TakeNext(c, t, i, its) ==
    IF i >= Len(its)
    THEN [cache |-> c, idx |-> PostIncrement(i), w |-> Worker("returned", i, 0, 0, 0, Null, <<>>, NoLook)]
    ELSE LET s == StartCall(c, t, i, its)
         IN  [cache |-> s.cache, idx |-> PostIncrement(i), w |-> s.w]

\* line 312: the workers are started one after another, each running to its
\* first await before the next starts
RECURSIVE LaunchWorkers(_, _, _, _, _)
LaunchWorkers(c, t, its, k, acc) ==
    IF k <= 0 THEN acc
    ELSE LET s == TakeNext(acc.cache, t, acc.idx, its)
         IN  LaunchWorkers(c, t, its, k - 1,
                 [cache |-> s.cache, idx |-> s.idx, wk |-> Append(acc.wk, s.w)])

-----------------------------------------------------------------------------
(* getGitHubStatistics: src/lib/github.ts 337-440 *)

RECURSIVE SumWeeks(_, _)
\* lines 412-414: the sum of (w.a + w.d) over weeks[k..]
SumWeeks(weeks, k) ==
    IF k > Len(weeks) THEN 0
    ELSE weeks[k].a + weeks[k].d + SumWeeks(weeks, k + 1)

RECURSIVE FindFromExact(_, _, _)
\* find comparing the author login as it is written
FindFromExact(stats, target, k) ==
    IF k > Len(stats) THEN 0
    ELSE IF stats[k].author # <<>> /\ stats[k].author[1] = target THEN k
    ELSE FindFromExact(stats, target, k + 1)

RECURSIVE FindFrom(_, _, _)
\* line 406, Array.prototype.find: the index of the first entry from k on whose
\* author login equals target ignoring case, 0 when there is none
FindFrom(stats, target, k) ==
    IF k > Len(stats) THEN 0
    ELSE IF stats[k].author # <<>> /\ toLowerCase(stats[k].author[1]) = target THEN k
    ELSE FindFrom(stats, target, k + 1)

ZeroTally ==
    [locChanged |-> 0, commitsCounted |-> 0, reposMatched |-> 0,
     reposPending |-> 0, reposFailed |-> 0]

\* the tally loop without the continue of its pending branch: a pending
\* repository falls through and is counted as failed too
TallyStepNoContinue(acc, r, target) ==
    IF r.status = "pending"
    THEN [acc EXCEPT !.reposPending = @ + 1, !.reposFailed = @ + 1]
    ELSE IF r.status = "failed" THEN [acc EXCEPT !.reposFailed = @ + 1]
    ELSE LET me == FindFrom(r.stats, target, 1)
         IN  IF me = 0 THEN acc
             ELSE [acc EXCEPT !.reposMatched = @ + 1,
                              !.commitsCounted = @ + r.stats[me].total,
                              !.locChanged = @ + SumWeeks(r.stats[me].weeks, 1)]

\* the tally loop adding the lines of every entry of an ok repository
TallyStepAllEntries(acc, r, target) ==
    IF r.status = "pending" THEN [acc EXCEPT !.reposPending = @ + 1]
    ELSE IF r.status = "failed" THEN [acc EXCEPT !.reposFailed = @ + 1]
    ELSE LET me == FindFrom(r.stats, target, 1)
         IN  IF me = 0 THEN [acc EXCEPT !.locChanged = @ + SumWeeks(r.stats[1].weeks, 1)]
             ELSE [acc EXCEPT !.reposMatched = @ + 1,
                              !.commitsCounted = @ + r.stats[me].total,
                              !.locChanged = @ + SumWeeks(r.stats[me].weeks, 1)]

\* lines 395-414: one iteration of the tally loop, on the outcome r
TallyStep(acc, r, target) ==
    IF r.status = "pending" THEN [acc EXCEPT !.reposPending = @ + 1]
    ELSE IF r.status = "failed" THEN [acc EXCEPT !.reposFailed = @ + 1]
    ELSE LET me == FindFrom(r.stats, target, 1)
         IN  IF me = 0 THEN acc
             ELSE [acc EXCEPT !.reposMatched = @ + 1,
                              !.commitsCounted = @ + r.stats[me].total,
                              !.locChanged = @ + SumWeeks(r.stats[me].weeks, 1)]

RECURSIVE Tally(_, _, _, _)
\* lines 394-415: the loop over results[k..]
Tally(res, target, k, acc) ==
    IF k > Len(res) THEN acc
    ELSE Tally(res, target, k + 1, TallyStep(acc, res[k].res, target))

\* the caching condition counting the pending repositories as decided
GoodDataPendingCounts(t, scanned) ==
    IF scanned > 0
    THEN 2 * (t.reposMatched + t.reposFailed + t.reposPending) > scanned
    ELSE TRUE

\* a success rate of 0 for a run that scanned nothing
GoodDataNeedsScan(t, scanned) ==
    scanned > 0 /\ 2 * (t.reposMatched + t.reposFailed) > scanned

\* lines 432-435: successRate > 0.5, successRate being (matched + failed) /
\* scanned, or 1 when nothing was scanned
GoodData(t, scanned) ==
    IF scanned > 0 THEN 2 * (t.reposMatched + t.reposFailed) > scanned ELSE TRUE

\* line 354
StatsKey(o) == <<"stats", toLowerCase(o.username), o.reposLimit, o.includeForks>>

RECURSIVE OwnedTotals(_, _)
\* getOwnedRepoTotals, lines 170-179, over the first n repositories
OwnedTotals(n, acc) ==
    IF n = 0 THEN acc
    ELSE OwnedTotals(n - 1,
            IF RepoRest(n).fork THEN acc
            ELSE [stars |-> acc.stars + RepoRest(n).stargazers_count,
                  forks |-> acc.forks + RepoRest(n).forks_count])

RECURSIVE ScanList(_, _, _)
\* listAccessibleReposForScan, lines 189-191, over repositories k..n of the listing
ScanList(k, n, includeForks) ==
    IF k > n THEN <<>>
    ELSE (IF includeForks \/ ~RepoRest(k).fork THEN <<RepoRest(k).full_name>> ELSE <<>>)
         \o ScanList(k + 1, n, includeForks)

\* a slice that keeps every element
SliceWhole(s, n) == s

\* Array.prototype.slice(0, n)
Slice(s, n) == SubSeq(s, 1, Min(Len(s), n))

Quiet(r) == \A w \in DOMAIN wk[r] : wk[r][w].phase \in {"returned", "threw"}

\* A continuation is queued as a microtask: a worker resumes after a cached
\* outcome, or Promise.all of the workers has resolved. The event loop runs it
\* before it delivers a response, fires a timer or accepts a call.
MicrotaskQueued ==
    \E r \in cfg.runs :
        \/ \E w \in DOMAIN wk[r] : wk[r][w].phase = "ret"
        \/ pc[r] = "scan" /\ \A w \in DOMAIN wk[r] : wk[r][w].phase = "returned"

\* line 346
TokenError == [error |-> "Missing GITHUB_TOKEN env var"]

\* the entry with the cache consulted before the token is tested
EntryCacheFirst(tok, c, key, t) ==
    LET cachedStats == getCached(c, key, t)
    IN  IF cachedStats # Null
        THEN [pc |-> "doneCached", ret |-> cachedStats, cache |-> getCachedEvict(c, key, t)]
        ELSE IF ~tok THEN [pc |-> "threw", ret |-> TokenError, cache |-> getCachedEvict(c, key, t)]
        ELSE [pc |-> "viewer", ret |-> Null, cache |-> getCachedEvict(c, key, t)]

\* lines 345-356: without a token the call throws before it touches the
\* cache; otherwise a cached record is returned, and a miss goes on to the
\* identity check
\* a call that asks GitHub who owns the token before it looks at the cache
EntryIdentityFirst(tok, c, key, t) ==
    IF ~tok THEN [pc |-> "threw", ret |-> TokenError, cache |-> c]
    ELSE [pc |-> "viewer", ret |-> Null, cache |-> c]

Entry(tok, c, key, t) ==
    LET cachedStats == getCached(c, key, t)
    IN  IF ~tok THEN [pc |-> "threw", ret |-> TokenError, cache |-> c]
        ELSE IF cachedStats # Null
        THEN [pc |-> "doneCached", ret |-> cachedStats, cache |-> getCachedEvict(c, key, t)]
        ELSE [pc |-> "viewer", ret |-> Null, cache |-> getCachedEvict(c, key, t)]

\* the option taken as it is given
ConcurrencyAsGiven(concurrencyOpt) == concurrencyOpt

\* line 351: the concurrency of the run, Math.max(options.concurrency, 4)
Concurrency(concurrencyOpt) == Max(concurrencyOpt, 4)

\* lines 345-358: the call up to its first await. Without a token it throws;
\* a cached record is returned; otherwise GET /user is sent. (given is
\* history: the concurrency option as passed, kept where the prewarm is
\* followed.)
Start(r, username, reposLimit, includeForks, concurrencyOpt) ==
    /\ ~MicrotaskQueued
    /\ starts < cfg.starts
    /\ pc[r] \in {"idle", "done", "doneCached", "threw"}
    /\ Quiet(r)
    /\ starts' = starts + 1
    /\ token' \in cfg.tokens
    /\ LET o == [username |-> username, reposLimit |-> reposLimit,
                 includeForks |-> includeForks,
                 concurrency |-> Concurrency(concurrencyOpt),
                 given |-> IF cfg.warm THEN concurrencyOpt ELSE 0]
           e == Entry(token', cache, StatsKey(o), now)
       IN  /\ opts' = [opts EXCEPT ![r] = o]
           /\ items' = [items EXCEPT ![r] = <<>>]
           /\ idx' = [idx EXCEPT ![r] = 0]
           /\ results' = [results EXCEPT ![r] = <<>>]
           /\ wk' = [wk EXCEPT ![r] = <<>>]
           /\ pc' = [pc EXCEPT ![r] = e.pc]
           /\ ret' = [ret EXCEPT ![r] = e.ret]
           /\ cache' = e.cache
    /\ UNCHANGED <<now, ticks, lastGet, cfg>>
    /\ UNCHANGED mapVars
    /\ UNCHANGED auxVars

\* the comparison of line 359 without the lowering of case
SameLoginExact(viewerLogin, username) == viewerLogin = username

\* line 359: viewerLogin.toLowerCase() !== username.toLowerCase(), negated
SameLogin(viewerLogin, username) == toLowerCase(viewerLogin) = toLowerCase(username)

\* the errors the identity check throws: getViewerLogin on a non-success
\* status (line 159), and the mismatch of lines 360-362
ViewerError == [error |-> "Failed to read /user from GitHub"]
MismatchError == [error |-> "Token owner does not match username"]

\* lines 157-363: GET /user answers. A non-success status throws, and so does a
\* login that differs from the username ignoring case; otherwise the three
\* fetches of line 366 are started.
ViewerResponse(r, ok) ==
    /\ ~MicrotaskQueued
    /\ pc[r] = "viewer"
    /\ IF ~ok
       THEN /\ pc' = [pc EXCEPT ![r] = "threw"]
            /\ ret' = [ret EXCEPT ![r] = ViewerError]
       ELSE IF ~SameLogin(ViewerLogin, opts[r].username)
       THEN /\ pc' = [pc EXCEPT ![r] = "threw"]
            /\ ret' = [ret EXCEPT ![r] = MismatchError]
       ELSE /\ pc' = [pc EXCEPT ![r] = "discover"]
            /\ ret' = ret
    /\ UNCHANGED <<cache, now, ticks, lastGet, cfg, token, starts, opts, items, idx,
                   results, wk>>
    /\ UNCHANGED mapVars
    /\ UNCHANGED auxVars

\* A response of the GraphQL endpoint: its status, whether its body is JSON,
\* the errors member of the body (Null when absent, else [list |-> messages])
\* and the data member.
GraphResponse(status, json, errors, data) ==
    [status |-> status, json |-> json, errors |-> errors, data |-> data]

\* graphqlRequest, lines 53-73: res.json() rejects on a body that is no
\* JSON; then !res.ok || json.errors throws, json.errors being truthy for
\* every list, the empty one too; otherwise json.data is returned
graphqlRequest(resp) ==
    IF ~resp.json THEN [kind |-> "throws"]
    ELSE IF ~ResOk(resp) \/ resp.errors # Null THEN [kind |-> "throws"]
    ELSE [kind |-> "returns", data |-> resp.data]

\* totalContributions of the i-th yearly window
YearTotal(i) == i + 2

RECURSIVE SumSettled(_, _)
\* lines 230-235: the sum over the results of the window queries from k on,
\* a null result (a query that failed, line 226) adding nothing
SumSettled(wins, k) ==
    IF k > Len(wins) THEN 0
    ELSE (IF wins[k] = Null THEN 0 ELSE wins[k].num) + SumSettled(wins, k + 1)

\* how the queries of one getAllTimeContributions call went: whether the
\* creation-date query succeeded, and what each window query settled with
QueriesAllOk == [created |-> TRUE, wins |-> << [num |-> YearTotal(1)], [num |-> YearTotal(2)] >>]
QueriesCreatedFails == [created |-> FALSE, wins |-> << >>]
QueriesWindowFails == [created |-> TRUE, wins |-> << [num |-> YearTotal(1)], Null >>]

\* getAllTimeContributions, lines 194-242: the cached figure; or null when
\* the creation-date query failed (the catch of line 239); or the sum of the
\* window queries that succeeded, cached with CACHE_TTL
AllTime(c, t, login, q) ==
    LET key == <<"contrib-all", toLowerCase(login)>>
        cached == getCached(c, key, t)
        c1 == getCachedEvict(c, key, t)
        total == [num |-> SumSettled(q.wins, 1)]
    IN  IF cached # Null THEN [cache |-> c1, value |-> cached]
        ELSE IF q.created
        THEN [cache |-> setCache(c1, key, total, CACHE_TTL, t), value |-> total]
        ELSE [cache |-> c1, value |-> Null]

\* the prewarm requests of a call slot: those of the latest call in flight,
\* those its pool (lines 144-153) has not started yet, and those that
\* earlier calls have left unsettled
NoWarm == [flying |-> 0, queued |-> 0, old |-> 0]

\* lines 141-155 with 296-315: prewarmContributorStats(repos, token,
\* concurrency) hands the first 20 repositories to mapWithConcurrency with
\* the limit concurrency * 2; the pool starts min(limit, n) requests at once
\* and keeps the others for later
Prewarm(w, repos, concurrency) ==
    LET its == Slice(repos, Min(Len(repos), 20))
        k == Min(concurrency * 2, Len(its))
    IN  [flying |-> k, queued |-> Len(its) - k,
         old |-> w.old + w.flying + w.queued]

\* what a settled prewarm request does to the call that launched it, were
\* its rejection to reach the call
PrewarmRethrow(p, ok) == IF ok THEN p ELSE "threw"

\* lines 148-150 and 376: ok or not, the response of a prewarm request is
\* discarded; the catch of the callback swallows a rejection and the promise
\* of prewarmContributorStats is never awaited
PrewarmCatch(p, ok) == p

\* lines 145-151 and 303-309: a prewarm request settles, of the latest call
\* of the slot (own) or of an earlier one, and its worker takes the next
\* repository if one is left
PrewarmSettle(r, own, ok) ==
    /\ ~MicrotaskQueued
    /\ IF own THEN warm[r].flying > 0 ELSE warm[r].old > 0
    /\ warm' = [warm EXCEPT ![r] =
                  IF ~own THEN [@ EXCEPT !.old = @ - 1]
                  ELSE IF warm[r].queued > 0 THEN [@ EXCEPT !.queued = @ - 1]
                  ELSE [@ EXCEPT !.flying = @ - 1]]
    /\ pc' = [pc EXCEPT ![r] = PrewarmCatch(pc[r], ok)]
    /\ UNCHANGED <<cacheVars, cfg, token, starts, opts, items, idx, results, wk, ret>>
    /\ UNCHANGED mapVars
    /\ UNCHANGED <<pageVars, graphVars, yearVars, locVars>>

\* how the listing of the repositories went: every page answered with a
\* success status ("ok"); a page answered with a non-success status and
\* paginateRest stopped at it, line 107 ("status"); or fetch rejected and
\* paginateRest with it ("network")
ListingOutcomes == {"ok", "status", "network"}

\* lines 366-392: the three fetches have settled. listed is how many
\* repositories paginateRest returned: all of them, or those of the pages
\* before the one that answered with a non-success status. A listing that
\* rejects makes the call throw. Otherwise the repositories to scan are cut
\* to reposLimit, the prewarm is launched without being awaited (line 376;
\* the specifications that do not follow its requests leave it out) and
\* mapWithConcurrency starts min(concurrency, n) workers.
\* (listing and listed in the totals are history: how the listing went and
\* how many repositories it returned.)
Discovered(r, listed, q, listing) ==
    /\ ~MicrotaskQueued
    /\ pc[r] = "discover"
    /\ LET at == AllTime(cache, now, opts[r].username, q)
           allRepos == ScanList(1, listed, opts[r].includeForks)
           reposToScan == Slice(allRepos, Max(0, opts[r].reposLimit))
           n == Len(reposToScan)
           totals == OwnedTotals(listed, [stars |-> 0, forks |-> 0])
           l == LaunchWorkers(at.cache, now, reposToScan,
                              Min(opts[r].concurrency, n),
                              [cache |-> at.cache, idx |-> 0, wk |-> <<>>])
       IN  IF listing = "network"
           THEN /\ pc' = [pc EXCEPT ![r] = "threw"]
                /\ cache' = at.cache
                /\ UNCHANGED <<items, idx, results, wk, ret, warm>>
           ELSE /\ pc' = [pc EXCEPT ![r] = "scan"]
                /\ warm' = IF cfg.warm
                           THEN [warm EXCEPT ![r] =
                                   Prewarm(warm[r], reposToScan, opts[r].concurrency)]
                           ELSE warm
                /\ cache' = l.cache
                /\ items' = [items EXCEPT ![r] = reposToScan]
                /\ idx' = [idx EXCEPT ![r] = l.idx]
                /\ results' = [results EXCEPT ![r] = [i \in 1..n |-> Unset]]
                /\ wk' = [wk EXCEPT ![r] = l.wk]
                /\ ret' = [ret EXCEPT ![r] =
                             [stars |-> totals.stars, forks |-> totals.forks,
                              contributionsAllTime |-> at.value,
                              listing |-> listing, listed |-> listed]]
    /\ UNCHANGED <<now, ticks, lastGet, cfg, token, starts, opts>>
    /\ UNCHANGED mapVars
    /\ UNCHANGED <<pageVars, graphVars, yearVars, locVars>>

\* line 308 onwards: fn resolved with out for worker w. The result is
\* stored at the worker's index and the worker takes the next index.
\* (reqs and seen are history: the requests and responses of the fn call.)
Continue(r, w, c, out, seen) ==
    LET me == wk[r][w]
        s == TakeNext(c, now, idx[r], items[r])
    IN  /\ results' = [results EXCEPT ![r] =
                          StoreResult(@, me.cur,
                              [fullName |-> items[r][me.cur + 1], res |-> out,
                               reqs |-> IF cfg.trace THEN me.reqs ELSE 0,
                               seen |-> seen])]
        /\ idx' = [idx EXCEPT ![r] = s.idx]
        /\ wk' = [wk EXCEPT ![r][w] = s.w]
        /\ cache' = s.cache

\* upstream answers the request of worker w: lines 260-289, then 308
Respond(r, w, resp) ==
    /\ ~MicrotaskQueued
    /\ w \in DOMAIN wk[r]
    /\ wk[r][w].phase = "req"
    /\ LET me == wk[r][w]
           fullName == items[r][me.cur + 1]
           h == HandleResponse(fullName, me.attempt, resp)
           seen == IF cfg.trace THEN Append(me.seen, resp) ELSE <<>>
       IN  CASE h.kind = "sleep" ->
                  /\ wk' = [wk EXCEPT ![r][w].phase = "sleep", ![r][w].slept = h.ms,
                                      ![r][w].seen = seen]
                  /\ UNCHANGED <<cache, idx, results, pc>>
             [] h.kind = "throw" ->
                  /\ wk' = [wk EXCEPT ![r][w].phase = "threw", ![r][w].seen = seen]
                  /\ pc' = [pc EXCEPT ![r] = IF @ = "scan" THEN "threw" ELSE @]
                  /\ UNCHANGED <<cache, idx, results>>
             [] OTHER ->
                  /\ Continue(r, w,
                        setCache(cache, <<"contrib", fullName>>, h.out, h.ttl, now),
                        h.out, seen)
                  /\ UNCHANGED pc
    /\ UNCHANGED <<now, ticks, lastGet, cfg, token, starts, opts, items, ret>>
    /\ UNCHANGED mapVars
    /\ UNCHANGED auxVars

\* the sleep of line 271 ends: the loop goes round and sends the next attempt
\* (lines 291-293 when the loop is over)
Wake(r, w) ==
    /\ ~MicrotaskQueued
    /\ w \in DOMAIN wk[r]
    /\ wk[r][w].phase = "sleep"
    /\ LET me == wk[r][w]
           fullName == items[r][me.cur + 1]
       IN  IF me.attempt + 1 <= retries
           THEN /\ wk' = [wk EXCEPT ![r][w] =
                            Worker("req", me.cur, me.attempt + 1, me.reqs + 1, 0, Null,
                                   me.seen, me.looked)]
                /\ UNCHANGED <<cache, idx, results>>
           ELSE Continue(r, w,
                    setCache(cache, <<"contrib", fullName>>, [status |-> "pending"],
                             SHORT_CACHE_TTL, now),
                    [status |-> "pending"], me.seen)
    /\ UNCHANGED <<now, ticks, lastGet, cfg, token, starts, pc, opts, items, ret>>
    /\ UNCHANGED mapVars
    /\ UNCHANGED auxVars

\* a worker whose fn returned a cached outcome resumes: line 308
Resume(r, w) ==
    /\ w \in DOMAIN wk[r]
    /\ wk[r][w].phase = "ret"
    /\ Continue(r, w, cache, wk[r][w].out, <<>>)
    /\ UNCHANGED <<now, ticks, lastGet, cfg, token, starts, pc, opts, items, ret>>
    /\ UNCHANGED mapVars
    /\ UNCHANGED auxVars

\* lines 394-439: every worker has returned; the tally, the record, the
\* caching decision. Reading .res of a slot never written throws.
Finish(r) ==
    /\ pc[r] = "scan"
    /\ \A w \in DOMAIN wk[r] : wk[r][w].phase = "returned"
    /\ LET n == Len(items[r])
           t == Tally(results[r], toLowerCase(opts[r].username), 1, ZeroTally)
           finalStats ==
               [login |-> opts[r].username,
                stars |-> ret[r].stars,
                forks |-> ret[r].forks,
                contributionsAllTime |-> ret[r].contributionsAllTime,
                locChanged |-> t.locChanged,
                commitsCounted |-> t.commitsCounted,
                reposScanned |-> n,
                reposMatched |-> t.reposMatched,
                reposPending |-> t.reposPending,
                reposFailed |-> t.reposFailed,
                reposWithContributions |-> t.reposMatched]
       IN  IF \E i \in 1..n : results[r][i] = Unset
           THEN /\ pc' = [pc EXCEPT ![r] = "threw"]
                /\ UNCHANGED <<cache, ret>>
           ELSE /\ pc' = [pc EXCEPT ![r] = "done"]
                /\ ret' = [ret EXCEPT ![r] = finalStats]
                /\ cache' = IF GoodData(t, n)
                            THEN setCache(cache, StatsKey(opts[r]), finalStats, CACHE_TTL, now)
                            ELSE cache
    /\ UNCHANGED <<now, ticks, lastGet, cfg, token, starts, opts, items, idx, results, wk>>
    /\ UNCHANGED mapVars
    /\ UNCHANGED auxVars

RunInit(c) ==
    /\ cache = EmptyCache
    /\ now = 0
    /\ ticks = 0
    /\ lastGet = [key |-> <<>>, at |-> 0, had |-> FALSE, expiry |-> 0, data |-> Null,
                  result |-> Null, before |-> EmptyCache]
    /\ cfg = c
    /\ token \in c.tokens
    /\ starts = 0
    /\ pc = [r \in c.runs |-> "idle"]
    /\ opts = [r \in c.runs |-> [username |-> "alice", reposLimit |-> 0,
                                 includeForks |-> FALSE, concurrency |-> 4,
                                 given |-> 0]]
    /\ items = [r \in c.runs |-> <<>>]
    /\ idx = [r \in c.runs |-> 0]
    /\ results = [r \in c.runs |-> <<>>]
    /\ wk = [r \in c.runs |-> <<>>]
    /\ ret = [r \in c.runs |-> Null]
    /\ warm = [r \in c.runs |-> NoWarm]
    /\ mItems = <<>> /\ mLimit = 0 /\ mIdx = 0 /\ mResults = <<>>
    /\ mWk = <<>> /\ mCalls = <<>> /\ mStatus = "returned"
    /\ PageIdle /\ GraphIdle /\ YearIdle /\ LocIdle

\* Date.now() moves on
Tick(d) ==
    /\ ticks < cfg.ticks
    /\ ~MicrotaskQueued
    /\ now' = now + d
    /\ ticks' = ticks + 1
    /\ UNCHANGED <<cache, lastGet, cfg>>
    /\ UNCHANGED runVars
    /\ UNCHANGED mapVars
    /\ UNCHANGED auxVars

\* the values of options.concurrency
ConcurrencyOpts == {-1, 0, 2, 4}

\* the steps of the calls
Next ==
    \/ \E r \in cfg.runs, u \in cfg.users, lim \in cfg.limits,
          f \in cfg.forks, c \in ConcurrencyOpts : Start(r, u, lim, f, c)
    \/ \E r \in cfg.runs, ok \in BOOLEAN : ViewerResponse(r, ok)
    \/ \E r \in cfg.runs, listed \in cfg.listed, q \in cfg.queries,
          listing \in cfg.listings : Discovered(r, listed, q, listing)
    \/ \E r \in cfg.runs, w \in 1..4, resp \in Responses : Respond(r, w, resp)
    \/ \E r \in cfg.runs, w \in 1..4 : Wake(r, w)
    \/ \E r \in cfg.runs, w \in 1..4 : Resume(r, w)
    \/ \E r \in cfg.runs : Finish(r)

\* the steps of the calls, and the clock
TimedNext ==
    \/ Next
    \/ \E d \in TickSteps : Tick(d)

\* calls one after another, of every username and option, at one instant
Init ==
    RunInit([runs |-> {1}, starts |-> MaxStarts, ticks |-> 0, tokens |-> BOOLEAN,
             users |-> {"alice", "bob"}, limits |-> {1, MaxRepos}, forks |-> BOOLEAN,
             listed |-> 0..MaxRepos, queries |-> {QueriesAllOk, QueriesCreatedFails},
             listings |-> {"ok", "network"}, trace |-> FALSE, warm |-> FALSE])

Spec == Init /\ [][Next]_vars

\* two calls in flight at once, at one instant
ConcCalls == {1, 2}

ConcInit ==
    RunInit([runs |-> ConcCalls, starts |-> Cardinality(ConcCalls), ticks |-> 0,
             tokens |-> {TRUE},
             users |-> {"alice"}, limits |-> {ConcMaxRepos}, forks |-> {TRUE},
             listed |-> 0..ConcMaxRepos, queries |-> {QueriesAllOk, QueriesWindowFails},
             listings |-> {"ok", "network"}, trace |-> FALSE, warm |-> FALSE])

ConcSpec == ConcInit /\ [][Next]_vars

\* calls one after another while the clock advances
TimedInit ==
    RunInit([runs |-> {1}, starts |-> TimedMaxStarts, ticks |-> MaxTicks, tokens |-> {TRUE},
             users |-> {"alice", "Alice"}, limits |-> {1}, forks |-> {FALSE},
             listed |-> {0, 1}, queries |-> {QueriesAllOk, QueriesCreatedFails},
             listings |-> {"ok", "network"}, trace |-> TRUE, warm |-> FALSE])

TimedSpec == TimedInit /\ [][TimedNext]_vars

\* calls with a token one after another, where the listing of the
\* repositories may stop at a page that answers with a non-success status
ListInit ==
    RunInit([runs |-> {1}, starts |-> MaxStarts, ticks |-> 0, tokens |-> {TRUE},
             users |-> {"alice"}, limits |-> {0, 1, 2}, forks |-> BOOLEAN,
             listed |-> 0..MaxRepos, queries |-> {QueriesAllOk},
             listings |-> ListingOutcomes, trace |-> FALSE, warm |-> FALSE])

ListSpec == ListInit /\ [][Next]_vars

\* the steps of the calls, and of the prewarm requests they leave behind
WarmNext ==
    \/ Next
    \/ \E r \in cfg.runs, own \in BOOLEAN, ok \in BOOLEAN : PrewarmSettle(r, own, ok)

\* calls one after another, over an account of no or two repositories, whose
\* prewarm requests are followed
WarmInit ==
    RunInit([runs |-> {1}, starts |-> MaxStarts, ticks |-> 0, tokens |-> {TRUE},
             users |-> {"alice"}, limits |-> {2}, forks |-> {TRUE},
             listed |-> {0, 2}, queries |-> {QueriesAllOk},
             listings |-> {"ok", "status"}, trace |-> FALSE, warm |-> TRUE])

WarmSpec == WarmInit /\ [][WarmNext]_vars

\* calls one after another, over an account of three repositories, whose
\* prewarm requests are followed
BurstInit ==
    RunInit([runs |-> {1}, starts |-> MaxStarts, ticks |-> 0, tokens |-> {TRUE},
             users |-> {"alice"}, limits |-> {3}, forks |-> {TRUE},
             listed |-> {3}, queries |-> {QueriesAllOk},
             listings |-> {"ok"}, trace |-> FALSE, warm |-> TRUE])

BurstSpec == BurstInit /\ [][WarmNext]_vars

\* calls one after another while the clock advances, with the token set or
\* not, over an account of no or one repository whose listing may answer
\* with a non-success status
HitInit ==
    RunInit([runs |-> {1}, starts |-> TimedMaxStarts, ticks |-> MaxTicks,
             tokens |-> BOOLEAN, users |-> {"alice", "Alice"}, limits |-> {0, 1},
             forks |-> {FALSE}, listed |-> {0, 1}, queries |-> {QueriesAllOk},
             listings |-> {"ok", "status"}, trace |-> FALSE, warm |-> FALSE])

HitSpec == HitInit /\ [][TimedNext]_vars

-----------------------------------------------------------------------------
(* MapSpec: mapWithConcurrency with an arbitrary fn, src/lib/github.ts 296-315 *)

ItemVals == {"a", "b", "c"}

\* what fn resolves with for an item
Fn(item) == [status |-> "fn", of |-> item]

\* one worker for every item, whatever the limit
WorkerCountPerItem(limit, n) == n

\* line 312: Math.min(limit, items.length) workers
WorkerCount(limit, n) == Min(limit, n)

\* the sequences over S of length n
SeqsOf(S, n) == [1..n -> S]

\* lines 301-313: the call up to its await. The workers start one after
\* another; each takes an index and calls fn.
MapCall ==
    /\ mStatus = "idle"
    /\ LET n == Len(mItems)
           nw == WorkerCount(mLimit, n)
       IN  /\ mResults' = [i \in 1..n |-> Unset]
           /\ mWk' = [w \in 1..nw |-> [phase |-> "await", cur |-> w - 1]]
           /\ mCalls' = [i \in 1..n |-> IF i <= nw THEN 1 ELSE 0]
           /\ mIdx' = IF nw = 0 THEN 0 ELSE PostIncrement(nw - 1)
    /\ mStatus' = "running"
    /\ UNCHANGED <<mItems, mLimit>>
    /\ UNCHANGED <<cache, now, ticks, lastGet, cfg>>
    /\ UNCHANGED runVars
    /\ UNCHANGED auxVars

\* a worker that stores its result and returns without looking for another item
FnResolveOnce(w) ==
    /\ w \in DOMAIN mWk
    /\ mWk[w].phase = "await"
    /\ mResults' = StoreResult(mResults, mWk[w].cur, Fn(mItems[mWk[w].cur + 1]))
    /\ mWk' = [mWk EXCEPT ![w] = [phase |-> "returned", cur |-> mIdx]]
    /\ UNCHANGED <<mItems, mLimit, mIdx, mCalls, mStatus>>
    /\ UNCHANGED <<cache, now, ticks, lastGet, cfg>>
    /\ UNCHANGED runVars
    /\ UNCHANGED auxVars

\* fn resolves for worker w, whichever calls are still in flight: line 308,
\* then lines 306-307 of the next round
FnResolve(w) ==
    /\ w \in DOMAIN mWk
    /\ mWk[w].phase = "await"
    /\ LET cur == mWk[w].cur
           nxt == mIdx
       IN  /\ mResults' = StoreResult(mResults, cur, Fn(mItems[cur + 1]))
           /\ mIdx' = PostIncrement(mIdx)
           /\ IF nxt >= Len(mItems)
              THEN /\ mWk' = [mWk EXCEPT ![w] = [phase |-> "returned", cur |-> nxt]]
                   /\ UNCHANGED mCalls
              ELSE /\ mWk' = [mWk EXCEPT ![w] = [phase |-> "await", cur |-> nxt]]
                   /\ mCalls' = [mCalls EXCEPT ![nxt + 1] = @ + 1]
    /\ UNCHANGED <<mItems, mLimit, mStatus>>
    /\ UNCHANGED <<cache, now, ticks, lastGet, cfg>>
    /\ UNCHANGED runVars
    /\ UNCHANGED auxVars

\* fn rejects for worker w and the worker catches it: nothing reaches the caller
FnRejectSwallowed(w) ==
    /\ w \in DOMAIN mWk
    /\ mWk[w].phase = "await"
    /\ mWk' = [mWk EXCEPT ![w].phase = "threw"]
    /\ UNCHANGED <<mItems, mLimit, mIdx, mResults, mCalls, mStatus>>
    /\ UNCHANGED <<cache, now, ticks, lastGet, cfg>>
    /\ UNCHANGED runVars
    /\ UNCHANGED auxVars

\* fn rejects for worker w: the worker's promise rejects, and Promise.all
\* (line 313) with it; the other workers go on
FnReject(w) ==
    /\ w \in DOMAIN mWk
    /\ mWk[w].phase = "await"
    /\ mWk' = [mWk EXCEPT ![w].phase = "threw"]
    /\ mStatus' = IF mStatus = "running" THEN "threw" ELSE mStatus
    /\ UNCHANGED <<mItems, mLimit, mIdx, mResults, mCalls>>
    /\ UNCHANGED <<cache, now, ticks, lastGet, cfg>>
    /\ UNCHANGED runVars
    /\ UNCHANGED auxVars

\* lines 313-314: every worker has returned; results is returned
MapReturn ==
    /\ mStatus = "running"
    /\ \A w \in DOMAIN mWk : mWk[w].phase = "returned"
    /\ mStatus' = "returned"
    /\ UNCHANGED <<mItems, mLimit, mIdx, mResults, mWk, mCalls>>
    /\ UNCHANGED <<cache, now, ticks, lastGet, cfg>>
    /\ UNCHANGED runVars
    /\ UNCHANGED auxVars

MapInit ==
    /\ cache = EmptyCache
    /\ now = 0
    /\ ticks = 0
    /\ lastGet = [key |-> <<>>, at |-> 0, had |-> FALSE, expiry |-> 0, data |-> Null,
                  result |-> Null, before |-> EmptyCache]
    /\ cfg = [runs |-> {}, starts |-> 0, ticks |-> 0, tokens |-> {TRUE},
              users |-> {}, limits |-> {}, forks |-> {}, listed |-> {}, queries |-> {},
              listings |-> {}, trace |-> FALSE, warm |-> FALSE]
    /\ token = TRUE
    /\ starts = 0
    /\ pc = <<>> /\ opts = <<>> /\ items = <<>> /\ idx = <<>>
    /\ results = <<>> /\ wk = <<>> /\ ret = <<>>
    /\ warm = <<>>
    /\ \E n \in 0..MapMaxLen : mItems \in SeqsOf(ItemVals, n)
    /\ mLimit \in 0..MapMaxLimit
    /\ mIdx = 0
    /\ mResults = <<>>
    /\ mWk = <<>>
    /\ mCalls = <<>>
    /\ mStatus = "idle"
    /\ PageIdle /\ GraphIdle /\ YearIdle /\ LocIdle

MapNext ==
    \/ MapCall
    \/ \E w \in 1..MapMaxLimit : FnResolve(w)
    \/ \E w \in 1..MapMaxLimit : FnReject(w)
    \/ MapReturn

MapSpec == MapInit /\ [][MapNext]_vars

\* the steps of a call none of whose fn calls fails
MapLiveNext ==
    \/ MapCall
    \/ \E w \in 1..MapMaxLimit : FnResolve(w)
    \/ MapReturn

\* a call whose fn calls all complete in the end without failing: the call
\* is made, every pending fn call resolves at some time, and the
\* continuation of Promise.all (line 313) runs once it is queued
MapLiveSpec ==
    /\ MapInit
    /\ [][MapLiveNext]_vars
    /\ WF_mStatus(MapCall)
    /\ \A w \in 1..MapMaxLimit : WF_<<mIdx, mWk>>(FnResolve(w))
    /\ WF_mStatus(MapReturn)

-----------------------------------------------------------------------------
(* CacheSpec: arbitrary lookups and writes *)

CacheKeys == {<<"contrib", <<"o", 1>>>>, <<"contrib", <<"o", 2>>>>}
CacheData == {[status |-> "pending"], [status |-> "failed"]}

NoGet == [key |-> <<>>, at |-> 0, had |-> FALSE, expiry |-> 0, data |-> Null,
          result |-> Null, before |-> EmptyCache]

CacheGet(key) ==
    /\ lastGet' = [key |-> key, at |-> now, had |-> key \in DOMAIN cache,
                   expiry |-> IF key \in DOMAIN cache THEN cache[key].expiry ELSE 0,
                   data |-> IF key \in DOMAIN cache THEN cache[key].data ELSE Null,
                   result |-> getCached(cache, key, now),
                   before |-> cache]
    /\ cache' = getCachedEvict(cache, key, now)
    /\ UNCHANGED <<now, ticks, cfg>>
    /\ UNCHANGED runVars
    /\ UNCHANGED mapVars
    /\ UNCHANGED auxVars

CacheSet(key, data, ttl) ==
    /\ cache' = setCache(cache, key, data, ttl, now)
    /\ lastGet' = NoGet
    /\ UNCHANGED <<now, ticks, cfg>>
    /\ UNCHANGED runVars
    /\ UNCHANGED mapVars
    /\ UNCHANGED auxVars

RunIdle ==
    /\ token = TRUE
    /\ starts = 0
    /\ pc = <<>> /\ opts = <<>> /\ items = <<>> /\ idx = <<>>
    /\ results = <<>> /\ wk = <<>> /\ ret = <<>>
    /\ warm = <<>>

MapIdle ==
    /\ mItems = <<>> /\ mLimit = 0 /\ mIdx = 0 /\ mResults = <<>>
    /\ mWk = <<>> /\ mCalls = <<>> /\ mStatus = "returned"

CacheInit ==
    /\ cache = EmptyCache
    /\ now = 0
    /\ ticks = 0
    /\ lastGet = NoGet
    /\ cfg = [runs |-> {}, starts |-> 0, ticks |-> MaxTicks, tokens |-> {TRUE},
              users |-> {}, limits |-> {}, forks |-> {}, listed |-> {}, queries |-> {},
              listings |-> {}, trace |-> FALSE, warm |-> FALSE]
    /\ RunIdle
    /\ MapIdle
    /\ PageIdle /\ GraphIdle /\ YearIdle /\ LocIdle

CacheNext ==
    \/ \E key \in CacheKeys : CacheGet(key)
    \/ \E key \in CacheKeys, data \in CacheData, ttl \in {CACHE_TTL, SHORT_CACHE_TTL} :
          CacheSet(key, data, ttl)
    \/ \E d \in TickSteps : Tick(d)

CacheSpec == CacheInit /\ [][CacheNext]_vars

-----------------------------------------------------------------------------
(* PageSpec. paginateRest alone: src/lib/github.ts 91-119 *)

PageMaxLen == 3
PageMaxPages == 3

\* a specification without calls of getGitHubStatistics
NoRuns ==
    [runs |-> {}, starts |-> 0, ticks |-> 0, tokens |-> {TRUE}, users |-> {},
     limits |-> {}, forks |-> {}, listed |-> {}, queries |-> {},
     listings |-> {}, trace |-> FALSE, warm |-> FALSE]

\* A Link header is a sequence of parts, each with the page its URL names and
\* its rel; a part the regular expression of line 95 does not match has rel "".
\* <<>> is a header that is absent or empty.
NoLink == <<>>
NextLink(p) == << [url |-> 1, rel |-> "first"], [url |-> 0, rel |-> ""],
                  [url |-> p + 1, rel |-> "next"] >>
FirstLink == << [url |-> 1, rel |-> "first"] >>

RECURSIVE ParseFrom(_, _, _)
\* lines 94-97: the loop over the parts from k on
ParseFrom(link, k, out) ==
    IF k > Len(link) THEN out
    ELSE ParseFrom(link, k + 1,
            IF link[k].rel = "" THEN out
            ELSE [r \in DOMAIN out \cup {link[k].rel} |->
                     IF r = link[k].rel THEN link[k].url ELSE out[r]])

\* lines 91-99: the record rel -> URL
parseLinkHeader(link) == ParseFrom(link, 1, [r \in {} |-> 0])

\* what upstream may answer for page p of a listing: 200 with the page's
\* items and a link to the next page, 200 with the items and no such link,
\* 202, an error with a JSON body, an error with a body that is no JSON, 200
\* with a JSON body that is no array
PageResponses(p) ==
    { [status |-> 200, body |-> "array", link |-> NextLink(p)],
      [status |-> 200, body |-> "array", link |-> NoLink],
      [status |-> 200, body |-> "array", link |-> FirstLink],
      [status |-> 202, body |-> "none", link |-> NoLink],
      [status |-> 500, body |-> "object", link |-> NoLink],
      [status |-> 502, body |-> "none", link |-> NoLink],
      [status |-> 200, body |-> "object", link |-> NoLink] }

\* the items of page p
PageBody(p) == << <<p, 1>>, <<p, 2>> >>

\* the answer to a request for page p; past the last page upstream has nothing
Upstream(pages, p) ==
    IF p \in 1..Len(pages) THEN pages[p]
    ELSE [status |-> 404, body |-> "object", link |-> NoLink]

\* the loop body following every page that has items, whatever its links
PageStepIgnoresLinks(resp, out, i, path, maxPages) ==
    IF restRequest(resp) = "throws" THEN [kind |-> "throw"]
    ELSE IF ~ResOk(resp) THEN [kind |-> "return", out |-> out]
    ELSE IF restRequest(resp) = "undefined" \/ resp.body # "array" THEN [kind |-> "throw"]
    ELSE IF i + 1 < maxPages
         THEN [kind |-> "request", out |-> out \o PageBody(path), path |-> path + 1]
         ELSE [kind |-> "return", out |-> out \o PageBody(path)]

\* lines 106-115, one iteration of the loop (number i, for the page `path`)
\* from the response on: restRequest throws when the body is no JSON (line
\* 87); a non-success status breaks; out.push(...data) throws a TypeError when
\* data is undefined (a 202) or not iterable; without a next link the loop
\* breaks; otherwise the next page is requested if i + 1 < maxPages
PageStep(resp, out, i, path, maxPages) ==
    IF restRequest(resp) = "throws" THEN [kind |-> "throw"]
    ELSE IF ~ResOk(resp) THEN [kind |-> "return", out |-> out]
    ELSE IF restRequest(resp) = "undefined" \/ resp.body # "array" THEN [kind |-> "throw"]
    ELSE LET links == parseLinkHeader(resp.link)
         IN  IF "next" \notin DOMAIN links
             THEN [kind |-> "return", out |-> out \o PageBody(path)]
             ELSE IF i + 1 < maxPages
             THEN [kind |-> "request", out |-> out \o PageBody(path),
                   path |-> links["next"]]
             ELSE [kind |-> "return", out |-> out \o PageBody(path)]

\* lines 102-106: the call up to its first await
PageCall ==
    /\ pStatus = "idle"
    /\ pOut' = <<>>
    /\ pI' = 0
    /\ IF 0 < pMax
       THEN pReqs' = <<1>> /\ pStatus' = "wait"
       ELSE pReqs' = <<>> /\ pStatus' = "returned"
    /\ UNCHANGED <<pPages, pMax>>
    /\ UNCHANGED <<cache, now, ticks, lastGet, cfg>>
    /\ UNCHANGED <<runVars, mapVars, graphVars, yearVars, locVars, warm>>

\* the page requested is answered
PageResponse ==
    /\ pStatus = "wait"
    /\ LET path == pReqs[Len(pReqs)]
           step == PageStep(Upstream(pPages, path), pOut, pI, path, pMax)
       IN  CASE step.kind = "throw" ->
                  /\ pStatus' = "threw"
                  /\ UNCHANGED <<pOut, pI, pReqs>>
             [] step.kind = "return" ->
                  /\ pStatus' = "returned"
                  /\ pOut' = step.out
                  /\ UNCHANGED <<pI, pReqs>>
             [] OTHER ->
                  /\ pOut' = step.out
                  /\ pI' = pI + 1
                  /\ pReqs' = Append(pReqs, step.path)
                  /\ UNCHANGED pStatus
    /\ UNCHANGED <<pPages, pMax>>
    /\ UNCHANGED <<cache, now, ticks, lastGet, cfg>>
    /\ UNCHANGED <<runVars, mapVars, graphVars, yearVars, locVars, warm>>

\* the listings upstream may hold, of n pages
Listings(n) ==
    {s \in [1..n -> UNION {PageResponses(p) : p \in 1..n}] :
        \A p \in 1..n : s[p] \in PageResponses(p)}

PageInit ==
    /\ cache = EmptyCache /\ now = 0 /\ ticks = 0 /\ lastGet = NoGet
    /\ cfg = NoRuns
    /\ RunIdle /\ MapIdle /\ GraphIdle /\ YearIdle /\ LocIdle
    /\ \E n \in 1..PageMaxLen : pPages \in Listings(n)
    /\ pMax \in 0..PageMaxPages
    /\ pI = 0 /\ pOut = <<>> /\ pReqs = <<>>
    /\ pStatus = "idle"

PageNext == PageCall \/ PageResponse

PageSpec == PageInit /\ [][PageNext]_vars

-----------------------------------------------------------------------------
(* GraphSpec. getAllTimeContributions alone, query by query:               *)
(* src/lib/github.ts 53-73 and 194-242                                     *)

GraphMaxWindows == 2
GraphMaxCalls == 2

GraphLogins == {"alice", "Alice"}

\* what the endpoint may answer to a query whose data would be `data`: the
\* data; the data with an empty errors list; errors and no data; a gateway
\* error that is no JSON; an error status with a JSON body
GraphResponses(data) ==
    { GraphResponse(200, TRUE, Null, data),
      GraphResponse(200, TRUE, [list |-> <<>>], data),
      GraphResponse(200, TRUE, [list |-> <<"rate limited">>], Null),
      GraphResponse(502, FALSE, Null, Null),
      GraphResponse(401, TRUE, Null, Null) }

\* lines 230-238: every window query has settled; the sum is cached and returned
AllTimeSettled(wins) ==
    LET total == [num |-> SumSettled(wins, 1)]
    IN  /\ cache' = setCache(cache, <<"contrib-all", toLowerCase(gLogin)>>, total,
                             CACHE_TTL, now)
        /\ gRet' = total
        /\ gPc' = "returned"

\* lines 194-204: the call up to its first await
AllTimeCall(login) ==
    /\ gPc \in {"idle", "returned"}
    /\ gCalls < GraphMaxCalls
    /\ gCalls' = gCalls + 1
    /\ gLogin' = login
    /\ gWin' = <<>>
    /\ gSeen' = <<>>
    /\ LET key == <<"contrib-all", toLowerCase(login)>>
           cached == getCached(cache, key, now)
       IN  /\ cache' = getCachedEvict(cache, key, now)
           /\ IF cached # Null
              THEN gPc' = "returned" /\ gRet' = cached
              ELSE gPc' = "created" /\ gRet' = [status |-> "unset"]
    /\ UNCHANGED <<now, ticks, lastGet, cfg>>
    /\ UNCHANGED <<runVars, mapVars, pageVars, yearVars, locVars, warm>>

\* lines 204-228: the creation-date query is answered; n is the number of
\* windows yearWindows makes of the account's age
CreatedResponse(resp, n) ==
    /\ gPc = "created"
    /\ gSeen' = <<resp>>
    /\ LET created == graphqlRequest(resp)
       IN  IF created.kind = "throws"
           THEN /\ gPc' = "returned"
                /\ gRet' = Null
                /\ UNCHANGED <<cache, gWin>>
           ELSE IF n = 0
           THEN /\ gWin' = <<>>
                /\ AllTimeSettled(<<>>)
           ELSE /\ gWin' = [i \in 1..n |-> [status |-> "wait"]]
                /\ gPc' = "windows"
                /\ UNCHANGED <<cache, gRet>>
    /\ UNCHANGED <<gLogin, gCalls>>
    /\ UNCHANGED <<now, ticks, lastGet, cfg>>
    /\ UNCHANGED <<runVars, mapVars, pageVars, yearVars, locVars, warm>>

\* lines 220-238: the query of window i is answered, in whatever order; a
\* query that throws settles with null (line 226); after the last one the
\* sum is made
WindowResponse(i, resp) ==
    /\ gPc = "windows"
    /\ i \in DOMAIN gWin
    /\ gWin[i] = [status |-> "wait"]
    /\ LET got == graphqlRequest(resp)
           wins == [gWin EXCEPT ![i] = IF got.kind = "throws" THEN Null ELSE got.data]
       IN  /\ gWin' = wins
           /\ gSeen' = Append(gSeen, [window |-> i, resp |-> resp])
           /\ IF \E j \in DOMAIN wins : wins[j] = [status |-> "wait"]
              THEN UNCHANGED <<cache, gRet, gPc>>
              ELSE AllTimeSettled(wins)
    /\ UNCHANGED <<gLogin, gCalls>>
    /\ UNCHANGED <<now, ticks, lastGet, cfg>>
    /\ UNCHANGED <<runVars, mapVars, pageVars, yearVars, locVars, warm>>

GraphInit ==
    /\ cache = EmptyCache /\ now = 0 /\ ticks = 0 /\ lastGet = NoGet
    /\ cfg = NoRuns
    /\ RunIdle /\ MapIdle /\ PageIdle /\ YearIdle /\ LocIdle
    /\ gLogin = "" /\ gPc = "idle" /\ gWin = <<>> /\ gSeen = <<>> /\ gRet = [status |-> "unset"]
    /\ gCalls = 0

GraphNext ==
    \/ \E login \in GraphLogins : AllTimeCall(login)
    \/ \E n \in 0..GraphMaxWindows : \E resp \in GraphResponses([windows |-> n]) :
          CreatedResponse(resp, n)
    \/ \E i \in 1..GraphMaxWindows : \E resp \in GraphResponses([num |-> YearTotal(i)]) :
          WindowResponse(i, resp)

GraphSpec == GraphInit /\ [][GraphNext]_vars

-----------------------------------------------------------------------------
(* YearSpec. yearWindows alone, window by window: src/lib/github.ts 121-134 *)

\* An instant is a whole number of parts of a day since 2019-01-01T00:00Z.
YearDayParts == 2
\* the latest year "now" falls in
YearLastYear == 2023

IsLeap(y) == y % 4 = 0 /\ (y % 100 # 0 \/ y % 400 = 0)

YearLen(y) == IF IsLeap(y) THEN 366 ELSE 365

\* the length of month m (1..12) of year y
MonthLen(y, m) ==
    IF m = 2 THEN (IF IsLeap(y) THEN 29 ELSE 28)
    ELSE IF m \in {4, 6, 9, 11} THEN 30 ELSE 31

RECURSIVE DaysBeforeYear(_)
\* the days from 2019-01-01 to the first of January of year y
DaysBeforeYear(y) == IF y <= 2019 THEN 0 ELSE DaysBeforeYear(y - 1) + YearLen(y - 1)

RECURSIVE DaysBeforeMonth(_, _)
DaysBeforeMonth(y, m) == IF m <= 1 THEN 0 ELSE DaysBeforeMonth(y, m - 1) + MonthLen(y, m - 1)

\* Date.UTC(y, m, d) as a day number: a day past the end of the month runs
\* over into the next month, as Date.UTC does (February 29 of a common year
\* is March 1). Months count from 1 here and from 0 in the source.
DateUTC(y, m, d) == DaysBeforeYear(y) + DaysBeforeMonth(y, m) + d - 1

RECURSIVE YearFrom(_, _)
\* the year day number n falls in, searching from year y, and the day of
\* that year
YearFrom(n, y) == IF n < YearLen(y) THEN [year |-> y, day |-> n] ELSE YearFrom(n - YearLen(y), y + 1)

RECURSIVE MonthFrom(_, _, _)
MonthFrom(n, y, m) ==
    IF n < MonthLen(y, m) THEN [month |-> m, date |-> n + 1]
    ELSE MonthFrom(n - MonthLen(y, m), y, m + 1)

\* getUTCFullYear, getUTCMonth and getUTCDate of an instant
Civil(t) ==
    LET yd == YearFrom(t \div YearDayParts, 2019)
        md == MonthFrom(yd.day, yd.year, 1)
    IN  [year |-> yd.year, month |-> md.month, date |-> md.date]

\* the instant of day number n at part p of the day
Instant(n, p) == n * YearDayParts + p

\* line 127: the midnight that begins the UTC day of t
DayStart(t) ==
    LET c == Civil(t) IN Instant(DateUTC(c.year, c.month, c.date), 0)

\* line 129: the same month and date a year after the midnight cur
NextYear(cur) ==
    LET c == Civil(cur) IN Instant(DateUTC(c.year + 1, c.month, c.date), 0)

\* a window that always runs to the next anniversary
WindowEndWhole(next, end) == next

\* line 130: wEnd = next < end ? next : end
WindowEnd(next, end) == IF next < end THEN next ELSE end

\* cur of the loop: line 127 before the first window, line 132 after one
Cur ==
    IF yWindows = <<>> THEN DayStart(yFrom)
    ELSE NextYear(yWindows[Len(yWindows)][1])

\* the creation timestamps tried: the days around the end of February of a
\* leap year, the last day of a year, and 2021-03-10
YearFroms ==
    {Instant(DateUTC(ymd[1], ymd[2], ymd[3]), p) :
        ymd \in {<<2019, 12, 31>>, <<2020, 2, 28>>, <<2020, 2, 29>>, <<2020, 3, 1>>,
                 <<2021, 3, 10>>},
        p \in 0..(YearDayParts - 1)}

\* the values of "now" tried
YearNows ==
    {Instant(DateUTC(y, md[1], md[2]), p) :
        y \in 2020..YearLastYear,
        md \in {<<2, 28>>, <<2, 29>>, <<3, 1>>, <<3, 10>>, <<7, 1>>},
        p \in 0..(YearDayParts - 1)}

\* lines 121-127: yearWindows(fromDate, toDate) is called; toDate is the
\* clock at the call and fromDate the creation of the account, line 207
YearCall(fromDate, toDate) ==
    /\ yStatus \in {"idle", "returned"}
    /\ fromDate < toDate
    /\ yFrom' = fromDate /\ yTo' = toDate
    /\ yWindows' = <<>>
    /\ yStatus' = "looping"
    /\ UNCHANGED <<cacheVars, cfg, runVars, mapVars, pageVars, graphVars, locVars, warm>>

\* lines 128-132: one turn of the loop
YearStep ==
    /\ yStatus = "looping"
    /\ Cur < yTo
    /\ yWindows' = Append(yWindows, <<Cur, WindowEnd(NextYear(Cur), yTo)>>)
    /\ UNCHANGED <<yFrom, yTo, yStatus>>
    /\ UNCHANGED <<cacheVars, cfg, runVars, mapVars, pageVars, graphVars, locVars, warm>>

\* lines 128 and 134: the loop ends and the windows are returned
YearReturn ==
    /\ yStatus = "looping"
    /\ ~(Cur < yTo)
    /\ yStatus' = "returned"
    /\ UNCHANGED <<yFrom, yTo, yWindows>>
    /\ UNCHANGED <<cacheVars, cfg, runVars, mapVars, pageVars, graphVars, locVars, warm>>

YearInit ==
    /\ cache = EmptyCache /\ now = 0 /\ ticks = 0 /\ lastGet = NoGet
    /\ cfg = NoRuns
    /\ RunIdle /\ MapIdle /\ PageIdle /\ GraphIdle /\ LocIdle
    /\ yFrom = 0 /\ yTo = 0 /\ yWindows = <<>> /\ yStatus = "idle"

YearNext ==
    \/ \E fromDate \in YearFroms, toDate \in YearNows : YearCall(fromDate, toDate)
    \/ YearStep
    \/ YearReturn

YearSpec == YearInit /\ [][YearNext]_vars

-----------------------------------------------------------------------------
(* getMergedPrLocChanged: src/unnamed/part_001 246-293 *)

PrMaxTotal == 6
PrMaxCap == 4
\* the size of a page, "first: 100" in the query of line 251, scaled down
PrPageSize == 2

\* the j-th merged pull request of the account, in the order upstream lists
\* them; the figures make the sum of a set of pull requests tell the set
PrNode(j) == [additions |-> 4 ^ (j - 1), deletions |-> 2 * (4 ^ (j - 1))]

\* what upstream answers for page p of an account with total merged pull
\* requests
PrPageOf(total, p) ==
    LET first == (p - 1) * PrPageSize + 1
        last == Min(p * PrPageSize, total)
    IN  [nodes |-> [k \in 1..Max(0, last - first + 1) |-> PrNode(first + k - 1)],
         hasNextPage |-> p * PrPageSize < total]

\* lines 282-286: the loop over the nodes of a page from node k on; done
\* says that the cap was reached and the function returned from the loop
RECURSIVE ScanPrs(_, _, _, _)
ScanPrs(nodes, k, acc, maxPrs) ==
    IF k > Len(nodes) THEN acc
    ELSE LET loc == acc.loc + nodes[k].additions + nodes[k].deletions
             scanned == acc.scanned + 1
         IN  IF scanned >= maxPrs
             THEN [loc |-> loc, scanned |-> scanned, done |-> TRUE]
             ELSE ScanPrs(nodes, k + 1,
                          [loc |-> loc, scanned |-> scanned, done |-> FALSE], maxPrs)

\* lines 246-278: getMergedPrLocChanged(login, token, maxPrs) is called and
\* requests the first page
PrCall(total, maxPrs) ==
    /\ pr.status \in {"idle", "returned", "threw"}
    /\ pr' = [status |-> "wait", total |-> total, maxPrs |-> maxPrs, page |-> 1,
              scanned |-> 0, loc |-> 0]
    /\ UNCHANGED <<cacheVars, cfg, runVars, mapVars, pageVars, graphVars, yearVars, ch, vw, mg, warm>>

\* lines 280-292: a page arrives; its nodes are added up to the cap, and the
\* next page is requested if the cap was not reached and the page has one
PrPage ==
    /\ pr.status = "wait"
    /\ LET prs == PrPageOf(pr.total, pr.page)
           a == ScanPrs(prs.nodes, 1,
                        [loc |-> pr.loc, scanned |-> pr.scanned, done |-> FALSE],
                        pr.maxPrs)
       IN  pr' = [pr EXCEPT !.loc = a.loc, !.scanned = a.scanned,
                            !.status = IF a.done \/ ~prs.hasNextPage
                                       THEN "returned" ELSE "wait",
                            !.page = IF a.done \/ ~prs.hasNextPage
                                     THEN pr.page ELSE pr.page + 1]
    /\ UNCHANGED <<cacheVars, cfg, runVars, mapVars, pageVars, graphVars, yearVars, ch, vw, mg, warm>>

\* lines 76-99 and 274: graphqlRequest throws and the function with it
PrFail ==
    /\ pr.status = "wait"
    /\ pr' = [pr EXCEPT !.status = "threw"]
    /\ UNCHANGED <<cacheVars, cfg, runVars, mapVars, pageVars, graphVars, yearVars, ch, vw, mg, warm>>

PrInit ==
    /\ cache = EmptyCache /\ now = 0 /\ ticks = 0 /\ lastGet = NoGet
    /\ cfg = NoRuns
    /\ RunIdle /\ MapIdle /\ PageIdle /\ GraphIdle /\ YearIdle
    /\ pr = [status |-> "idle", total |-> 0, maxPrs |-> 0, page |-> 0,
             scanned |-> 0, loc |-> 0]
    /\ ch = [status |-> "unused"]
    /\ vw = [status |-> "unused"]
    /\ mg = [status |-> "unused"]

PrNext ==
    \/ \E total \in 0..PrMaxTotal, maxPrs \in (-1)..PrMaxCap : PrCall(total, maxPrs)
    \/ PrPage
    \/ PrFail

PrSpec == PrInit /\ [][PrNext]_vars

-----------------------------------------------------------------------------
(* getCommitLocChangedFromDefaultBranches: src/unnamed/part_001 306-369 *)

ChMaxRepos == 2
ChMaxCommits == 3
ChMaxLimit == 2
ChMaxCap == 3
\* the size of a page, "first: 100" in the query of line 321, scaled down
ChPageSize == 2

\* a repository without a default branch: line 351 finds no history
NoHistory == -1

\* what a repository is to the walk: NoHistory, or how many commits of the
\* user its default branch holds
ChRepoKinds == {NoHistory} \cup 0..ChMaxCommits

\* the lists of repositories tried
ChRepoLists == UNION {[1..n -> ChRepoKinds] : n \in 0..ChMaxRepos}

\* the j-th commit of the user in the i-th repository, newest first
ChNode(i, j) == [additions |-> j, deletions |-> 10 * i]

\* what upstream answers for page p of the history of the i-th repository,
\* which holds total commits of the user
ChPageOf(i, total, p) ==
    LET first == (p - 1) * ChPageSize + 1
        last == Min(p * ChPageSize, total)
    IN  [nodes |-> [k \in 1..Max(0, last - first + 1) |-> ChNode(i, first + k - 1)],
         hasNextPage |-> p * ChPageSize < total]

\* line 335: the repositories walked
ChSlice(repos, reposLimit) == Slice(repos, Min(reposLimit, Len(repos)))

\* lines 354-359: the loop over the nodes of a page from node k on
RECURSIVE ScanCommits(_, _, _, _)
ScanCommits(nodes, k, acc, maxCommitsPerRepo) ==
    IF k > Len(nodes) THEN acc
    ELSE LET a == [loc |-> acc.loc + nodes[k].additions + nodes[k].deletions,
                   commitsCounted |-> acc.commitsCounted + 1,
                   perRepoCount |-> acc.perRepoCount + 1]
         IN  IF a.perRepoCount >= maxCommitsPerRepo
             THEN a
             ELSE ScanCommits(nodes, k + 1, a, maxCommitsPerRepo)

\* lines 337-343 and 368: the walk of a repository is over; the next one of
\* the slice is entered, or the totals are returned. (counts is history:
\* perRepoCount of every repository walked.)
ChLeaveRepo(c) ==
    LET done == [c EXCEPT !.counts = Append(c.counts, c.perRepoCount)]
    IN  IF c.r >= Len(ChSlice(c.repos, c.reposLimit))
        THEN [done EXCEPT !.status = "returned"]
        ELSE [done EXCEPT !.r = c.r + 1, !.reposScanned = c.reposScanned + 1,
                          !.page = 1, !.perRepoCount = 0]

\* lines 306-312: the function is called and asks for the node id of the
\* user; it keeps nothing from one call to the next, so one call is followed
ChCall(repos, reposLimit, maxCommitsPerRepo) ==
    /\ ch.status = "idle"
    /\ ch' = [status |-> "user", repos |-> repos, reposLimit |-> reposLimit,
              maxCommitsPerRepo |-> maxCommitsPerRepo, r |-> 0, page |-> 0,
              perRepoCount |-> 0, loc |-> 0, commitsCounted |-> 0,
              reposScanned |-> 0, counts |-> <<>>]
    /\ UNCHANGED <<cacheVars, cfg, runVars, mapVars, pageVars, graphVars, yearVars, pr, vw, mg, warm>>

\* lines 312 and 331-349: the node id arrives; the first repository of the
\* slice is entered and the first page of its history requested, or with an
\* empty slice the totals are returned
ChUserId ==
    /\ ch.status = "user"
    /\ ch' = IF Len(ChSlice(ch.repos, ch.reposLimit)) = 0
             THEN [ch EXCEPT !.status = "returned"]
             ELSE [ch EXCEPT !.status = "wait", !.r = 1, !.reposScanned = 1,
                             !.page = 1, !.perRepoCount = 0]
    /\ UNCHANGED <<cacheVars, cfg, runVars, mapVars, pageVars, graphVars, yearVars, pr, vw, mg, warm>>

\* lines 350-365: a page of the history of repository r arrives
ChPage ==
    /\ ch.status = "wait"
    /\ LET total == ChSlice(ch.repos, ch.reposLimit)[ch.r]
           history == ChPageOf(ch.r, total, ch.page)
           a == ScanCommits(history.nodes, 1,
                            [loc |-> ch.loc, commitsCounted |-> ch.commitsCounted,
                             perRepoCount |-> ch.perRepoCount],
                            ch.maxCommitsPerRepo)
           c == [ch EXCEPT !.loc = a.loc, !.commitsCounted = a.commitsCounted,
                           !.perRepoCount = a.perRepoCount]
       IN  ch' = IF total = NoHistory THEN ChLeaveRepo(ch)
                 ELSE IF a.perRepoCount >= ch.maxCommitsPerRepo THEN ChLeaveRepo(c)
                 ELSE IF ~history.hasNextPage THEN ChLeaveRepo(c)
                 ELSE [c EXCEPT !.page = ch.page + 1]
    /\ UNCHANGED <<cacheVars, cfg, runVars, mapVars, pageVars, graphVars, yearVars, pr, vw, mg, warm>>

\* lines 76-99 with 302 and 345: graphqlRequest throws and the function with it
ChFail ==
    /\ ch.status \in {"user", "wait"}
    /\ ch' = [ch EXCEPT !.status = "threw"]
    /\ UNCHANGED <<cacheVars, cfg, runVars, mapVars, pageVars, graphVars, yearVars, pr, vw, mg, warm>>

ChInit ==
    /\ cache = EmptyCache /\ now = 0 /\ ticks = 0 /\ lastGet = NoGet
    /\ cfg = NoRuns
    /\ RunIdle /\ MapIdle /\ PageIdle /\ GraphIdle /\ YearIdle
    /\ pr = [status |-> "unused"]
    /\ vw = [status |-> "unused"]
    /\ mg = [status |-> "unused"]
    /\ ch = [status |-> "idle", repos |-> <<>>, reposLimit |-> 0,
             maxCommitsPerRepo |-> 0, r |-> 0, page |-> 0,
             perRepoCount |-> 0, loc |-> 0, commitsCounted |-> 0,
             reposScanned |-> 0, counts |-> <<>>]

ChNext ==
    \/ \E repos \in ChRepoLists, reposLimit \in 0..ChMaxLimit,
          maxCommitsPerRepo \in 0..ChMaxCap :
            ChCall(repos, reposLimit, maxCommitsPerRepo)
    \/ ChUserId
    \/ ChPage
    \/ ChFail

CommitSpec == ChInit /\ [][ChNext]_vars

-----------------------------------------------------------------------------
\* ViewsSpec: the traffic summary of the older variant,
\* src/unnamed/part_001 lines 371-406 (getRepoViews14Days), one repository
\* after the other; getGitHubStatistics calls it at line 471 with the
\* reposLimit of line 438, which the route of src/unnamed/part_006 (line 125)
\* takes from the URL as any number but 0.

\* the most repositories the account owns, and the largest reposLimit
VwMaxRepos == 3
VwMaxLimit == 4

\* what the traffic endpoint does for a repository: it answers a success
\* status and a numeric count, a status that is not a success (no push
\* access: 403), a success status and a body without a numeric count, a
\* success status and a body that is not JSON, or fetch rejects
VwKinds == {"count", "status", "nocount", "notjson", "reject"}

\* the count upstream reports for the i-th repository; the figures make the
\* sum over a set of repositories tell the set
VwCount(i) == 2 ^ (i - 1)

\* Array.prototype.slice(0, end): a negative end counts from the end of the
\* array
JsSliceTo(a, end) ==
    SubSeq(a, 1, IF end < 0 THEN Max(Len(a) + end, 0) ELSE Min(end, Len(a)))

\* lines 371-376: getRepoViews14Days(repos, token, reposLimit) is called,
\* with what upstream will do for each repository; an empty slice returns
\* at once (lines 378 and 405)
VwCall(repos, reposLimit) ==
    /\ vw.status = "idle"
    /\ LET slice == JsSliceTo(repos, Min(reposLimit, Len(repos)))
       IN  vw' = [status |-> IF Len(slice) = 0 THEN "returned" ELSE "wait",
                  repos |-> repos, reposLimit |-> reposLimit, slice |-> slice,
                  totalViews |-> 0, attempted |-> 0, succeeded |-> 0]
    /\ UNCHANGED <<cacheVars, cfg, runVars, mapVars, pageVars, graphVars, yearVars, pr, ch, mg, warm>>

\* lines 378-403: one turn of the loop: the repository is attempted (line
\* 379), then a status that is not a success goes on to the next one (line
\* 393), a rejected fetch or a body that does not parse is caught (line
\* 400), and a numeric count is added (lines 396-399); after the last
\* repository of the slice the function returns (line 405)
VwAnswer ==
    /\ vw.status = "wait"
    /\ LET i == vw.attempted + 1
           r == vw.slice[i]
           numeric == r = "count"
       IN  vw' = [vw EXCEPT
                    !.attempted = i,
                    !.totalViews = IF numeric THEN @ + VwCount(i) ELSE @,
                    !.succeeded = IF numeric THEN @ + 1 ELSE @,
                    !.status = IF i = Len(vw.slice) THEN "returned" ELSE "wait"]
    /\ UNCHANGED <<cacheVars, cfg, runVars, mapVars, pageVars, graphVars, yearVars, pr, ch, mg, warm>>

VwInit ==
    /\ cache = EmptyCache /\ now = 0 /\ ticks = 0 /\ lastGet = NoGet
    /\ cfg = NoRuns
    /\ RunIdle /\ MapIdle /\ PageIdle /\ GraphIdle /\ YearIdle
    /\ pr = [status |-> "unused"]
    /\ ch = [status |-> "unused"]
    /\ mg = [status |-> "unused"]
    /\ vw = [status |-> "idle", repos |-> <<>>, reposLimit |-> 0, slice |-> <<>>,
             totalViews |-> 0, attempted |-> 0, succeeded |-> 0]

VwNext ==
    \/ \E n \in 0..VwMaxRepos, reposLimit \in (-1)..VwMaxLimit :
         \E repos \in [1..n -> VwKinds] : VwCall(repos, reposLimit)
    \/ VwAnswer

ViewsSpec == VwInit /\ [][VwNext]_vars

-----------------------------------------------------------------------------
\* MergeSpec: the merge of the accessible and the contributed-to listing in
\* the older variant, src/unnamed/part_000 lines 328-360 (getGitHubStatistics)
\* with listContributedReposViaGraphQL (lines 159-188), page by page.

\* the most entries of the accessible listing and of the contributed-to
\* listing, the size of a page of the latter ("first: 100", line 165, scaled
\* down), and the largest reposLimit
MgMaxAccessible == 2
MgMaxContributed == 2
MgPageSize == 1
MgMaxLimit == 4

\* the full names the two listings hold; "o/a" and "O/A" are two spellings
\* of one lowercase name
MgNames == {"o/a", "O/A", "o/b"}

\* lines 146-156: the Repo listAccessibleRepos makes of the i-th entry of
\* GET /user/repos (includeForks given, so that line 156 keeps all); the
\* metadata tell the entries of a listing apart. owner and name are the two
\* halves of fullName and are left out. The listing is read in pages sorted
\* by push date (line 141), so a repository pushed to between two pages can
\* be listed twice, with the metadata of each moment.
MgRepo(fullName, i) ==
    [fullName |-> fullName, stars |-> i, forks |-> i + 1,
     isFork |-> (i % 2 = 0), isPrivate |-> TRUE]

\* Map.prototype.has and Map.prototype.set on a Map kept as the sequence of
\* its entries in insertion order: set on a key the Map holds replaces the
\* value in place
MapHas(m, key) == \E k \in 1..Len(m) : m[k].key = key

MapSet(m, key, value) ==
    IF MapHas(m, key)
    THEN [k \in 1..Len(m) |-> IF m[k].key = key
                              THEN [key |-> key, value |-> value] ELSE m[k]]
    ELSE Append(m, [key |-> key, value |-> value])

\* lines 331-332: the loop over the accessible listing from entry i on
RECURSIVE SetAccessible(_, _, _)
SetAccessible(repoSet, accessible, i) ==
    IF i > Len(accessible) THEN repoSet
    ELSE SetAccessible(MapSet(repoSet, toLowerCase(accessible[i]),
                              MgRepo(accessible[i], i)),
                       accessible, i + 1)

\* lines 343-351: the entry made of a contributed-to name
ContributedRepo(fullName) ==
    [fullName |-> fullName, stars |-> 0, forks |-> 0,
     isFork |-> FALSE, isPrivate |-> FALSE]

\* lines 337-353: the loop over the contributed-to names from name j on
RECURSIVE MergeContributed(_, _, _)
MergeContributed(repoSet, contributed, j) ==
    IF j > Len(contributed) THEN repoSet
    ELSE LET key == toLowerCase(contributed[j])
         IN  MergeContributed(IF ~MapHas(repoSet, key)
                              THEN MapSet(repoSet, key, ContributedRepo(contributed[j]))
                              ELSE repoSet,
                              contributed, j + 1)

\* line 360: Array.from(repoSet.values()).slice(0, reposLimit)
ReposAll(repoSet, reposLimit) ==
    JsSliceTo([k \in 1..Len(repoSet) |-> repoSet[k].value], reposLimit)

\* what upstream answers for page p of a contributed-to listing
MgPageOf(contributed, p) ==
    LET first == (p - 1) * MgPageSize + 1
        last == Min(p * MgPageSize, Len(contributed))
    IN  [nodes |-> [k \in 1..Max(0, last - first + 1) |-> contributed[first + k - 1]],
         hasNextPage |-> p * MgPageSize < Len(contributed)]

\* lines 178, 336 and 354: the names the caller gets when a page fails: the
\* names read so far are local to listContributedReposViaGraphQL and are
\* lost with its exception; the catch of line 354 goes on with none
CaughtNamesKept(names) == names

CaughtNames(names) == <<>>

\* lines 328-336: the accessible listing has arrived and is put into the
\* Map; with includeContributedRepos the first page of the contributed-to
\* listing is requested, without it line 360 follows at once
MgCall(accessible, contributed, includeContributedRepos, reposLimit) ==
    /\ mg.status = "idle"
    /\ LET repoSet == SetAccessible(<<>>, accessible, 1)
       IN  mg' = [status |-> IF includeContributedRepos THEN "wait" ELSE "returned",
                  accessible |-> accessible, contributed |-> contributed,
                  includeContributedRepos |-> includeContributedRepos,
                  reposLimit |-> reposLimit,
                  repoSet |-> repoSet, page |-> 1, names |-> <<>>, failed |-> FALSE,
                  reposAll |-> IF includeContributedRepos THEN <<>>
                               ELSE ReposAll(repoSet, reposLimit)]
    /\ UNCHANGED <<cacheVars, cfg, runVars, mapVars, pageVars, graphVars, yearVars, pr, ch, vw, warm>>

\* lines 180-187 and 337-360: a page of the contributed-to listing arrives;
\* its names are kept, the next page is requested if there is one, and
\* after the last page the names are merged and the candidates cut
MgPage ==
    /\ mg.status = "wait"
    /\ LET data == MgPageOf(mg.contributed, mg.page)
           names == mg.names \o data.nodes
           repoSet == MergeContributed(mg.repoSet, names, 1)
       IN  mg' = IF data.hasNextPage
                 THEN [mg EXCEPT !.names = names, !.page = @ + 1]
                 ELSE [mg EXCEPT !.names = names, !.status = "returned",
                                 !.repoSet = repoSet,
                                 !.reposAll = ReposAll(repoSet, mg.reposLimit)]
    /\ UNCHANGED <<cacheVars, cfg, runVars, mapVars, pageVars, graphVars, yearVars, pr, ch, vw, warm>>

\* lines 181 and 354-360: graphqlRequest throws for the page awaited; the
\* catch of line 354 swallows it and the candidates are cut
MgFail ==
    /\ mg.status = "wait"
    /\ LET repoSet == MergeContributed(mg.repoSet, CaughtNames(mg.names), 1)
       IN  mg' = [mg EXCEPT !.status = "returned", !.failed = TRUE,
                            !.repoSet = repoSet,
                            !.reposAll = ReposAll(repoSet, mg.reposLimit)]
    /\ UNCHANGED <<cacheVars, cfg, runVars, mapVars, pageVars, graphVars, yearVars, pr, ch, vw, warm>>

MgInit ==
    /\ cache = EmptyCache /\ now = 0 /\ ticks = 0 /\ lastGet = NoGet
    /\ cfg = NoRuns
    /\ RunIdle /\ MapIdle /\ PageIdle /\ GraphIdle /\ YearIdle
    /\ pr = [status |-> "unused"]
    /\ ch = [status |-> "unused"]
    /\ vw = [status |-> "unused"]
    /\ mg = [status |-> "idle", accessible |-> <<>>, contributed |-> <<>>,
             includeContributedRepos |-> TRUE, reposLimit |-> MgMaxLimit,
             repoSet |-> <<>>, page |-> 0, names |-> <<>>, failed |-> FALSE,
             reposAll |-> <<>>]

MgNext ==
    \/ \E n \in 0..MgMaxAccessible, m \in 0..MgMaxContributed,
          includeContributedRepos \in BOOLEAN, reposLimit \in {1, MgMaxLimit} :
         \E accessible \in [1..n -> MgNames], contributed \in [1..m -> MgNames] :
              MgCall(accessible, contributed, includeContributedRepos, reposLimit)
    \/ MgPage
    \/ MgFail

MergeSpec == MgInit /\ [][MgNext]_vars

\* ---------------------------------------------------------------------------
\* Properties of a run of getGitHubStatistics
\* ---------------------------------------------------------------------------

\* whether entry e of a contributor-statistics array is target's
IsEntryOf(e, target) == e.author # <<>> /\ toLowerCase(e.author[1]) = target

\* the scanned repositories of run r, by the outcome in the result array
ReposWithStatus(r, st) ==
    {i \in 1..Len(results[r]) : IsSet(results[r], i) /\ results[r][i].res.status = st}

HasEntryOfTarget(r, i) ==
    \E k \in 1..Len(results[r][i].res.stats) :
        IsEntryOf(results[r][i].res.stats[k], toLowerCase(opts[r].username))

MatchedRepos(r) == {i \in ReposWithStatus(r, "ok") : HasEntryOfTarget(r, i)}
UnmatchedRepos(r) == {i \in ReposWithStatus(r, "ok") : ~HasEntryOfTarget(r, i)}

\* the runs that computed a record
Computed == {r \in DOMAIN pc : pc[r] = "done"}

\* C1: in the record a run computes, every scanned repository is counted in
\* exactly one of reposMatched, reposPending, reposFailed and the group of
\* ok outcomes without an entry of the target login, so the three counters
\* plus the size of that group equal reposScanned
C1_CountersPartitionScanned ==
    \A r \in Computed :
        /\ ret[r].reposScanned = Len(items[r])
        /\ ret[r].reposMatched = Cardinality(MatchedRepos(r))
        /\ ret[r].reposPending = Cardinality(ReposWithStatus(r, "pending"))
        /\ ret[r].reposFailed = Cardinality(ReposWithStatus(r, "failed"))
        /\ ret[r].reposMatched + ret[r].reposPending + ret[r].reposFailed
             + Cardinality(UnmatchedRepos(r)) = ret[r].reposScanned

\* a run over two repositories, one of them ok without an entry of the target
C1_Witness ==
    \E r \in Computed :
        /\ ret[r].reposScanned = 2
        /\ Cardinality(UnmatchedRepos(r)) = 1
        /\ ret[r].reposMatched + ret[r].reposPending + ret[r].reposFailed = 1

RECURSIVE SumFn(_)
\* the sum of the values of a function with a finite domain
SumFn(f) ==
    IF DOMAIN f = {} THEN 0
    ELSE LET x == CHOOSE x \in DOMAIN f : TRUE
         IN  f[x] + SumFn([y \in DOMAIN f \ {x} |-> f[y]])

\* the entry of the target login in the statistics of repository i of run r:
\* the first one, as Array.prototype.find selects it
TargetEntry(r, i) ==
    LET stats == results[r][i].res.stats
        target == toLowerCase(opts[r].username)
        k == CHOOSE k \in 1..Len(stats) :
                 /\ IsEntryOf(stats[k], target)
                 /\ \A j \in 1..(k - 1) : ~IsEntryOf(stats[j], target)
    IN  stats[k]

LinesOf(e) == SumFn([k \in 1..Len(e.weeks) |-> e.weeks[k].a + e.weeks[k].d])

\* C2: in the record a run computes, locChanged is the sum of the weekly
\* additions plus deletions of the target login's entry over the matched
\* repositories, commitsCounted the sum of those entries' totals, and
\* reposWithContributions equals reposMatched; pending, failed and unmatched
\* repositories add nothing
C2_TotalsOverMatched ==
    \A r \in Computed :
        /\ ret[r].locChanged =
               SumFn([i \in MatchedRepos(r) |-> LinesOf(TargetEntry(r, i))])
        /\ ret[r].commitsCounted =
               SumFn([i \in MatchedRepos(r) |-> TargetEntry(r, i).total])
        /\ ret[r].reposWithContributions = ret[r].reposMatched

\* a run with one matched and one pending repository: the totals are those
\* of the matched repository's first entry of the target
C2_Witness ==
    \E r \in Computed :
        /\ ret[r].reposScanned = 2
        /\ ret[r].reposMatched = 1
        /\ ret[r].reposPending = 1
        /\ ret[r].locChanged = 7
        /\ ret[r].commitsCounted = 3

\* ---------------------------------------------------------------------------
\* Properties of getContributorStatsForRepo (checked where the history of the
\* fetch calls is kept)
\* ---------------------------------------------------------------------------

All202(seen) == \A k \in 1..Len(seen) : seen[k].status = 202

\* the first response of seen that is no 202
FirstNon202(seen) ==
    seen[CHOOSE k \in 1..Len(seen) :
            seen[k].status # 202 /\ \A j \in 1..(k - 1) : seen[j].status = 202]

\* the fetch calls that returned after asking upstream
Fetched ==
    {e \in UNION {{results[r][i] : i \in {j \in 1..Len(results[r]) : IsSet(results[r], j)}}
                    : r \in DOMAIN results} : Len(e.seen) > 0}

\* the fetch calls in progress (or rejected)
InFlight == UNION {{wk[r][w] : w \in DOMAIN wk[r]} : r \in DOMAIN wk}

\* C3: a fetch that receives 202 on every attempt returns the pending outcome,
\* does not reject, and has then made exactly retries + 1 upstream requests
C3_All202IsPending ==
    /\ \A e \in Fetched :
          All202(e.seen) =>
              /\ e.res.status = "pending"
              /\ e.reqs = retries + 1
              /\ Len(e.seen) = retries + 1
    /\ \A me \in InFlight :
          All202(me.seen) => me.phase # "threw" /\ me.reqs <= retries + 1

\* a fetch answered 202 three times
C3_Witness ==
    \E e \in Fetched :
        /\ Len(e.seen) = 3
        /\ All202(e.seen)
        /\ e.res.status = "pending"
        /\ e.reqs = 3

\* C4: for every sequence of upstream responses a fetch returns exactly one
\* of the three outcomes: ok exactly when the first response that is no 202
\* is a success with an array body, failed exactly when it is a non-success
\* or has a body that is no array, pending exactly when every attempt got 202
C4_ExactlyOneOutcome ==
    /\ \A me \in InFlight : me.phase # "threw"
    /\ \A e \in Fetched :
          /\ e.res.status \in {"ok", "failed", "pending"}
          /\ e.res.status = "pending" <=> All202(e.seen)
          /\ e.res.status = "ok" <=>
                 /\ ~All202(e.seen)
                 /\ ResOk(FirstNon202(e.seen))
                 /\ FirstNon202(e.seen).body = "array"
          /\ e.res.status = "failed" <=>
                 /\ ~All202(e.seen)
                 /\ ~ResOk(FirstNon202(e.seen)) \/ FirstNon202(e.seen).body # "array"

\* C6: a pending outcome is cached to expire SHORT_CACHE_TTL after it is
\* written, and a fetch whose lookup finds a pending outcome at a time later
\* than that expiry does not return it: it asks upstream
C6_ExpiredPendingIsMiss ==
    /\ [](\A me \in InFlight :
            (/\ me.looked.had
             /\ me.looked.data.status = "pending"
             /\ me.looked.at > me.looked.expiry)
            => me.phase \in {"req", "sleep", "threw"} /\ me.reqs >= 1)
    /\ [][\A key \in DOMAIN cache' :
            (/\ key[1] = "contrib"
             /\ cache'[key].data.status = "pending"
             /\ (key \notin DOMAIN cache \/ cache[key] # cache'[key]))
            => cache'[key].expiry = now + SHORT_CACHE_TTL]_vars

\* a fetch that found an expired pending outcome, evicted it and asked upstream
C6_Witness ==
    \E r \in DOMAIN wk : \E w \in DOMAIN wk[r] :
        /\ wk[r][w].looked.had
        /\ wk[r][w].looked.data.status = "pending"
        /\ wk[r][w].looked.at > wk[r][w].looked.expiry
        /\ wk[r][w].phase = "req"
        /\ wk[r][w].reqs = 1
        /\ <<"contrib", items[r][wk[r][w].cur + 1]>> \notin DOMAIN cache

\* ---------------------------------------------------------------------------
\* Properties of the cache writes
\* ---------------------------------------------------------------------------

\* key is written by the step
Written(key) ==
    key \in DOMAIN cache' /\ (key \notin DOMAIN cache \/ cache[key] # cache'[key])

IsOutcome(key, data, st) == key[1] = "contrib" /\ data.status = st

Finishing(r) == pc[r] = "scan" /\ pc'[r] = "done"

\* more than half of the scanned repositories of record rec are decided
AboveHalf(rec) == 2 * (rec.reposMatched + rec.reposFailed) > rec.reposScanned

Without(c, key) == [k \in DOMAIN c \ {key} |-> c[k]]

\* the original statement of C5: the value when now < expiry, absent and
\* evicted when now >= expiry
C5_ValueStrictlyBeforeExpiry ==
    lastGet.key # <<>> =>
        IF lastGet.had /\ lastGet.at < lastGet.expiry
        THEN lastGet.result = lastGet.data /\ cache = lastGet.before
        ELSE lastGet.result = Null /\ cache = Without(lastGet.before, lastGet.key)

\* C5: getCached returns the stored value when the key is present and the
\* time is at most the entry's expiry, leaving the cache as it is; otherwise
\* (key absent, or time past the expiry) it returns absent and the entry, if
\* there was one, is gone
C5_ValueUntilExpiry ==
    lastGet.key # <<>> =>
        IF lastGet.had /\ lastGet.at <= lastGet.expiry
        THEN lastGet.result = lastGet.data /\ cache = lastGet.before
        ELSE lastGet.result = Null /\ cache = Without(lastGet.before, lastGet.key)

\* a lookup at the very instant of the expiry returned the value
C5_Witness ==
    /\ lastGet.key # <<>>
    /\ lastGet.had
    /\ lastGet.at = lastGet.expiry
    /\ lastGet.result = lastGet.data
    /\ lastGet.key \in DOMAIN cache

\* ---------------------------------------------------------------------------
\* Properties of mapWithConcurrency
\* ---------------------------------------------------------------------------

\* C9: for every limit >= 1 and every completion order, the sequence
\* mapWithConcurrency returns has the length of items and holds fn(items[i])
\* at index i; while it runs, every slot written holds its item's result
C9_ResultsInItemOrder ==
    /\ \A i \in DOMAIN mResults :
          IsSet(mResults, i) => mResults[i] = Fn(mItems[i])
    /\ (mStatus = "returned" /\ mLimit >= 1) =>
          /\ Len(mResults) = Len(mItems)
          /\ \A i \in 1..Len(mItems) : mResults[i] = Fn(mItems[i])

\* the third item's call has resolved before the first one's
C9_Witness ==
    /\ mLimit = 2
    /\ Len(mItems) >= 3
    /\ Len(mResults) = Len(mItems)
    /\ mItems[1] # mItems[3]
    /\ ~IsSet(mResults, 1)
    /\ IsSet(mResults, 3)
    /\ mResults[3] = Fn(mItems[3])

\* no index is held by two workers and fn is called at most once per index
AtMostOncePerIndex ==
    /\ \A i \in DOMAIN mCalls : mCalls[i] <= 1
    /\ \A v, w \in DOMAIN mWk :
          (v # w /\ mWk[v].phase = "await" /\ mWk[w].phase = "await")
          => mWk[v].cur # mWk[w].cur

\* the original statement of C10: whatever the limit, fn has been called
\* exactly once for each index when the call returns
C10_ExactlyOnceAnyLimit ==
    /\ AtMostOncePerIndex
    /\ mStatus = "returned" => \A i \in 1..Len(mItems) : mCalls[i] = 1

\* C10: under every interleaving of the workers no two of them take the same
\* index, so fn is called at most once per index; for a limit >= 1, when no
\* fn call fails, it is called exactly once for each index
C10_ExactlyOnceFromLimitOne ==
    /\ AtMostOncePerIndex
    /\ (mStatus = "returned" /\ mLimit >= 1) =>
          \A i \in 1..Len(mItems) : mCalls[i] = 1

\* two workers have shared four items
C10_Witness ==
    /\ mStatus = "returned"
    /\ mLimit = 2
    /\ Len(mItems) = 4
    /\ \A i \in 1..4 : mCalls[i] = 1

\* C11: if fn fails for an item, the call to mapWithConcurrency fails: the
\* failure reaches the caller and no result sequence is returned
C11_FailurePropagates ==
    (\E w \in DOMAIN mWk : mWk[w].phase = "threw") => mStatus = "threw"

\* a call that failed while a result was already written and another fn call
\* was still in flight
C11_Witness ==
    /\ mStatus = "threw"
    /\ \E i \in DOMAIN mResults : IsSet(mResults, i)
    /\ \E w \in DOMAIN mWk : mWk[w].phase = "await"

\* ---------------------------------------------------------------------------
\* Properties of paginateRest
\* ---------------------------------------------------------------------------

HasNextLink(resp) == \E k \in 1..Len(resp.link) : resp.link[k].rel = "next"
IsSuccess(resp) == resp.status \in 200..299

\* the response to the j-th request of the call
Answer(j) == Upstream(pPages, pReqs[j])

PageFinished == pStatus \in {"returned", "threw"}

RECURSIVE BodiesOf(_, _)
\* the items of the first n pages requested, in the order of the requests
BodiesOf(reqs, n) ==
    IF n = 0 THEN <<>> ELSE BodiesOf(reqs, n - 1) \o PageBody(reqs[n])

\* upstream holds exactly k pages of items, the last one alone without a
\* next link
IsPlainListing(pages) ==
    /\ \A p \in 1..Len(pages) : pages[p].status = 200 /\ pages[p].body = "array"
    /\ \A p \in 1..(Len(pages) - 1) : HasNextLink(pages[p])
    /\ ~HasNextLink(pages[Len(pages)])

\* C12: paginateRest issues at most maxPages requests; it requests a further
\* page only after a successful page with a rel="next" link, and having
\* returned it stopped at such a stop or at maxPages; against k <= maxPages
\* successful pages of which only the last has no next link, it issues
\* exactly k requests and returns the k pages' items
C12_StopsAtLastPage ==
    /\ Len(pReqs) <= pMax
    /\ \A j \in 1..(Len(pReqs) - 1) : IsSuccess(Answer(j)) /\ HasNextLink(Answer(j))
    /\ (pStatus = "returned" /\ Len(pReqs) > 0) =>
          \/ ~IsSuccess(Answer(Len(pReqs)))
          \/ ~HasNextLink(Answer(Len(pReqs)))
          \/ Len(pReqs) = pMax
    /\ (PageFinished /\ IsPlainListing(pPages) /\ Len(pPages) <= pMax) =>
          /\ pStatus = "returned"
          /\ pReqs = [j \in 1..Len(pPages) |-> j]
          /\ pOut = BodiesOf(pReqs, Len(pPages))

\* two pages fetched with maxPages = 3
C12_Witness ==
    /\ pStatus = "returned"
    /\ IsPlainListing(pPages)
    /\ Len(pPages) = 2
    /\ pMax = 3
    /\ Len(pReqs) = 2

\* C13: paginateRest never requests the same page twice, and when a page
\* returns a non-success status it does not raise but returns the items of
\* the pages fetched before that page, in order
C13_FailedPageTruncates ==
    /\ \A i, j \in 1..Len(pReqs) : i # j => pReqs[i] # pReqs[j]
    /\ (PageFinished /\ Len(pReqs) > 0 /\ ~IsSuccess(Answer(Len(pReqs)))) =>
          /\ pStatus = "returned"
          /\ pOut = BodiesOf(pReqs, Len(pReqs) - 1)

\* C14: restRequest gives no body for a 202, and a 202 answer to a request of
\* paginateRest does not make it dereference the body
C14_No202Dereference ==
    /\ \A p \in 1..Len(pPages) :
          pPages[p].status = 202 => restRequest(pPages[p]) = "undefined"
    /\ (PageFinished /\ Len(pReqs) > 0 /\ Answer(Len(pReqs)).status = 202) =>
          pStatus = "returned"

\* ---------------------------------------------------------------------------
\* Properties of graphqlRequest and getAllTimeContributions
\* ---------------------------------------------------------------------------

\* a response that is a failure: a status that is no 2xx, a body that does not
\* decode, or a decoded body with a non-empty errors list
IsGraphFailure(resp) ==
    \/ ~IsSuccess(resp)
    \/ ~resp.json
    \/ resp.errors # Null /\ Len(resp.errors.list) > 0

\* the responses the window queries of the call have received
WindowAnswers == {gSeen[k] : k \in 2..Len(gSeen)}

\* C15: graphqlRequest fails when the status is no 2xx or the body carries a
\* non-empty errors list, and returns the data member when the status is 2xx
\* and the errors list is absent or empty: the creation-date query makes the
\* figure null exactly on a failure, and a window query settles with null on
\* a failure and with its data otherwise
C15_FailsOnNon2xxOrErrors ==
    /\ Len(gSeen) >= 1 => (IsGraphFailure(gSeen[1]) <=> gRet = Null)
    /\ \A e \in WindowAnswers :
          gWin[e.window] = IF IsGraphFailure(e.resp) THEN Null ELSE e.resp.data

\* C18: when the creation-date query or the query of any window fails,
\* getAllTimeContributions returns null and stores no figure in the cache
C18_NullOnAnyFailure ==
    (/\ gPc = "returned"
     /\ Len(gSeen) >= 1
     /\ IsGraphFailure(gSeen[1]) \/ \E e \in WindowAnswers : IsGraphFailure(e.resp))
    => /\ gRet = Null
       /\ <<"contrib-all", toLowerCase(gLogin)>> \notin DOMAIN cache

\* ---------------------------------------------------------------------------
\* Properties of the entry of getGitHubStatistics
\* ---------------------------------------------------------------------------

\* the username of call r and the login of the token owner differ even when
\* case is ignored
Mismatch(r) == toLowerCase(opts[r].username) # toLowerCase(ViewerLogin)

\* the cache holds a record or an all-time figure under the username of call r
CachedFor(r) ==
    \/ <<"contrib-all", toLowerCase(opts[r].username)>> \in DOMAIN cache
    \/ \E l \in cfg.limits, f \in cfg.forks :
          <<"stats", toLowerCase(opts[r].username), l, f>> \in DOMAIN cache

\* a call whose username mismatches gets no further than the identity check
\* and leaves nothing in the cache; the mismatch error is thrown for a
\* mismatching username only
C16_MismatchState ==
    \A r \in cfg.runs :
        /\ pc[r] # "idle" /\ Mismatch(r)
              => pc[r] \in {"viewer", "threw"} /\ wk[r] = <<>> /\ ~CachedFor(r)
        /\ pc[r] = "threw" /\ ret[r] = MismatchError => Mismatch(r)

\* the step that answers the identity check of a mismatching call fails the
\* call, writes nothing to the cache and starts no fetch
C16_MismatchStep ==
    \A r \in cfg.runs :
        pc[r] = "viewer" /\ pc'[r] # "viewer" /\ Mismatch(r)
            => pc'[r] = "threw" /\ cache' = cache /\ wk'[r] = <<>>

\* C16: when the login of the token owner differs from the requested username
\* (ignoring case) the call fails at the identity check, with no upstream call
\* after it and no cache write; logins that are equal up to case are accepted
C16_MismatchFailsAtOnce == []C16_MismatchState /\ [][C16_MismatchStep]_vars

\* a call for "bob" with the token of "Alice" was refused at the identity
\* check
C16_Witness ==
    \E r \in cfg.runs :
        pc[r] = "threw" /\ ret[r] = MismatchError /\ Mismatch(r)

\* a call for "alice" with the token of "Alice" was accepted and scans
C16_AcceptedUpToCase ==
    \E r \in cfg.runs :
        pc[r] = "scan" /\ opts[r].username # ViewerLogin /\ ~Mismatch(r)

\* a call that found no token stays failed and starts no fetch
C17_NoTokenState ==
    \A r \in cfg.runs :
        pc[r] = "threw" /\ ret[r] = TokenError => ~token /\ wk[r] = <<>>

\* a call entered without a token fails in its first step and leaves the
\* cache as it was, whatever the cache holds
C17_NoTokenStep ==
    starts' # starts /\ ~token'
        => /\ cache' = cache
           /\ \E r \in cfg.runs :
                 /\ pc'[r] = "threw" /\ ret'[r] = TokenError /\ wk'[r] = <<>>
                 /\ \A q \in cfg.runs \ {r} : pc'[q] = pc[q] /\ ret'[q] = ret[q]

\* C17: a call made while GITHUB_TOKEN is missing fails immediately, with no
\* upstream call, and the cache is neither read nor written, even when a
\* record for the call is cached
C17_MissingTokenFailsFirst == []C17_NoTokenState /\ [][C17_NoTokenStep]_vars

\* a call without a token has failed although the cache holds its record
C17_Witness ==
    \E r \in cfg.runs :
        /\ pc[r] = "threw" /\ ret[r] = TokenError /\ ~token
        /\ StatsKey(opts[r]) \in DOMAIN cache
        /\ getCached(cache, StatsKey(opts[r]), now) # Null

\* ---------------------------------------------------------------------------
\* Properties of yearWindows
\* ---------------------------------------------------------------------------

\* whether instant t is a midnight
IsMidnight(t) == t % YearDayParts = 0

\* the 29ths of February that begin within window w
LeapDaysIn(w) ==
    {y \in 2019..(YearLastYear + 1) :
        /\ IsLeap(y)
        /\ w[1] <= Instant(DateUTC(y, 2, 29), 0)
        /\ Instant(DateUTC(y, 2, 29), 0) < w[2]}

\* a window is at most one year long: 365 days and the 29ths of February
\* within it
AtMostOneYear(w) ==
    w[2] - w[1] <= Instant(365, 0) + Instant(Cardinality(LeapDaysIn(w)), 0)

\* C19: for a creation timestamp T and now N > T the windows of
\* yearWindows(T, N) are consecutive (each starts where the one before ends),
\* non-overlapping, begin and end at a UTC midnight except that the last one
\* ends at N, are each at most one year long, and begin at the UTC day of T;
\* from 2021-03-10 to 2023-07-01 there are exactly three
C19_WindowsTile ==
    LET n == Len(yWindows)
    IN  /\ \A i \in 1..n :
              /\ yWindows[i][1] < yWindows[i][2]
              /\ IsMidnight(yWindows[i][1])
              /\ AtMostOneYear(yWindows[i])
              /\ yWindows[i][2] <= yTo
        /\ \A i \in 1..(n - 1) :
              /\ yWindows[i + 1][1] = yWindows[i][2]
              /\ IsMidnight(yWindows[i][2])
        /\ n >= 1 =>
              /\ yWindows[1][1] <= yFrom
              /\ yFrom < yWindows[1][1] + Instant(1, 0)
        /\ yStatus = "returned" /\ yFrom < yTo =>
              /\ n >= 1
              /\ yWindows[n][2] = yTo
        /\ (/\ yStatus = "returned"
            /\ yFrom \div YearDayParts = DateUTC(2021, 3, 10)
            /\ yTo = Instant(DateUTC(2023, 7, 1), 0))
           => yWindows = << <<Instant(DateUTC(2021, 3, 10), 0), Instant(DateUTC(2022, 3, 10), 0)>>,
                            <<Instant(DateUTC(2022, 3, 10), 0), Instant(DateUTC(2023, 3, 10), 0)>>,
                            <<Instant(DateUTC(2023, 3, 10), 0), Instant(DateUTC(2023, 7, 1), 0)>> >>

\* the windows from 2021-03-10 (not at midnight) to 2023-07-01 were returned
C19_Witness ==
    /\ yStatus = "returned"
    /\ yFrom = Instant(DateUTC(2021, 3, 10), 1)
    /\ yTo = Instant(DateUTC(2023, 7, 1), 0)
    /\ Len(yWindows) = 3

\* windows beginning on a 29th of February were returned: the first runs to
\* the first of March of the next year, and the last ends within a day
C19_LeapDayStart ==
    /\ yStatus = "returned"
    /\ yFrom \div YearDayParts = DateUTC(2020, 2, 29)
    /\ Len(yWindows) >= 2
    /\ yWindows[1][2] = Instant(DateUTC(2021, 3, 1), 0)
    /\ ~IsMidnight(yTo)

\* C20: a transport error on the listing of the repositories, a network
\* failure or a non-success status, is fatal: a call whose listing failed
\* does not go on to return a statistics record
C20_ListingFailureIsFatal ==
    [][\A r \in cfg.runs :
          pc[r] = "scan" /\ ret[r].listing # "ok" => pc'[r] # "done"]_vars

\* ---------------------------------------------------------------------------
\* Properties of the scan of getGitHubStatistics
\* ---------------------------------------------------------------------------

\* C21: a repository whose contributor statistics stay at 202 through the
\* retries, answer with a non-success status or carry a malformed payload
\* never aborts the batch: the scan of a call never ends in a failure of the
\* call, and the record counts that repository in reposPending or reposFailed
C21_OutcomeNeverAborts ==
    /\ [](\A r \in Computed :
            /\ ret[r].reposPending = Cardinality(ReposWithStatus(r, "pending"))
            /\ ret[r].reposFailed = Cardinality(ReposWithStatus(r, "failed"))
            /\ \A i \in 1..Len(items[r]) : IsSet(results[r], i))
    /\ [][\A r \in cfg.runs : pc[r] = "scan" => pc'[r] # "threw"]_vars

\* the sum of all the yearly windows
WholeSum == [num |-> SumSettled(QueriesAllOk.wins, 1)]

\* C22: a failure of any query of the all-time contributions never makes
\* getGitHubStatistics fail, and the record then reports contributionsAllTime
\* as null: the figure of a record is the sum of all the windows, or null
C22_AllTimeFailureGivesNull ==
    \A r \in cfg.runs :
        pc[r] \in {"scan", "done"} => ret[r].contributionsAllTime \in {Null, WholeSum}

\* ---------------------------------------------------------------------------
\* The frame of the cache operations
\* ---------------------------------------------------------------------------

\* the entries of every key but key are the same before and after the step
OthersUnchanged(key) ==
    \A k \in (DOMAIN cache \cup DOMAIN cache') \ {key} :
        k \in DOMAIN cache /\ k \in DOMAIN cache' /\ cache'[k] = cache[k]

\* C23: getCached changes the cache only by removing the key it looks up when
\* that entry is expired, and setCache changes only the entry of its own key,
\* which then expires at now + ttl; the entry of every other key is left as
\* it was by both, in every order of lookups, writes and clock advances
C23_OnlyOwnKey ==
    [][\E key \in CacheKeys :
          /\ OthersUnchanged(key)
          /\ \/ cache' = cache
             \/ /\ lastGet'.key = key
                /\ key \in DOMAIN cache /\ now > cache[key].expiry
                /\ key \notin DOMAIN cache'
             \/ /\ lastGet' = NoGet
                /\ key \in DOMAIN cache'
                /\ cache'[key].data \in CacheData
                /\ cache'[key].expiry \in {now + CACHE_TTL, now + SHORT_CACHE_TTL}]_vars

\* a lookup has removed its expired entry and left the expired entry of the
\* other key in place
C23_Witness ==
    /\ lastGet.had /\ lastGet.at > lastGet.expiry /\ lastGet.at = now
    /\ lastGet.key \notin DOMAIN cache
    /\ \E k \in DOMAIN cache : now > cache[k].expiry /\ lastGet.before[k] = cache[k]

\* the tally of the first i outcomes of run r
TallyUpTo(r, i) ==
    Tally(SubSeq(results[r], 1, i), toLowerCase(opts[r].username), 1, ZeroTally)

\* C24: for an ok repository the entry selected is the one whose author login
\* equals the target username ignoring case, an entry with a null author never
\* being selected; its total and lines are added and reposMatched grows by
\* one. When no entry matches, the repository changes no tally at all and
\* still counts in reposScanned
C24_UnmatchedAddsNothing ==
    \A r \in Computed :
        /\ ret[r].reposScanned = Len(results[r])
        /\ TallyUpTo(r, Len(results[r])).locChanged = ret[r].locChanged
        /\ TallyUpTo(r, Len(results[r])).commitsCounted = ret[r].commitsCounted
        /\ \A i \in ReposWithStatus(r, "ok") :
              LET before == TallyUpTo(r, i - 1)
                  after == TallyUpTo(r, i)
              IN  IF HasEntryOfTarget(r, i)
                  THEN /\ TargetEntry(r, i).author # <<>>
                       /\ after.reposMatched = before.reposMatched + 1
                       /\ after.commitsCounted = before.commitsCounted + TargetEntry(r, i).total
                       /\ after.locChanged = before.locChanged + LinesOf(TargetEntry(r, i))
                       /\ after.reposPending = before.reposPending
                       /\ after.reposFailed = before.reposFailed
                  ELSE after = before

\* a record over two ok repositories: the first holds entries "ALICE" and
\* "alice" and one with a null author, the second no entry of the target
C24_Witness ==
    \E r \in Computed :
        /\ opts[r].username = "alice"
        /\ ReposWithStatus(r, "ok") = {1, 2}
        /\ HasEntryOfTarget(r, 1) /\ ~HasEntryOfTarget(r, 2)
        /\ \E k \in 1..Len(results[r][2].res.stats) : results[r][2].res.stats[k].author = <<>>
        /\ ret[r].reposScanned = 2 /\ ret[r].reposMatched = 1
        /\ ret[r].reposPending = 0 /\ ret[r].reposFailed = 0
        /\ ret[r].locChanged = 7 /\ ret[r].commitsCounted = 3

\* ---------------------------------------------------------------------------
\* The retry loop of getContributorStatsForRepo
\* ---------------------------------------------------------------------------

\* the sleep after attempt k was answered 202
SleepAfter(k) == delays[Min(k, Len(delays) - 1) + 1]

\* where the fetch calls in progress stand: before the answer to attempt k
\* every earlier attempt was answered 202, and a sleep follows a 202 to an
\* attempt k < retries and lasts SleepAfter(k)
C25_RetryState ==
    /\ \A me \in InFlight :
          /\ me.phase = "req" =>
                /\ Len(me.seen) = me.attempt /\ me.reqs = me.attempt + 1
                /\ me.attempt <= retries
                /\ All202(me.seen)
          /\ me.phase = "sleep" =>
                /\ Len(me.seen) = me.attempt + 1 /\ me.reqs = me.attempt + 1
                /\ me.attempt < retries
                /\ All202(me.seen)
                /\ me.slept = SleepAfter(me.attempt)
    /\ \A e \in Fetched :
          /\ e.reqs = Len(e.seen) /\ Len(e.seen) <= retries + 1
          /\ \A k \in 1..(Len(e.seen) - 1) : e.seen[k].status = 202
          /\ All202(e.seen) => Len(e.seen) = retries + 1

\* the steps of a fetch call: a 202 to attempt k < retries starts the sleep,
\* the end of the sleep sends attempt k + 1, and any other answer ends the
\* call without a sleep
C25_RetryStep ==
    \A r \in cfg.runs : \A w \in DOMAIN wk[r] :
        LET me == wk[r][w]
            after == wk'[r][w]
        IN  (pc'[r] = pc[r] /\ w \in DOMAIN wk'[r] /\ after # me) =>
              /\ me.phase = "sleep" =>
                    /\ after.phase = "req" /\ after.cur = me.cur
                    /\ after.attempt = me.attempt + 1
                    /\ after.reqs = me.reqs + 1
                    /\ after.seen = me.seen
              /\ me.phase = "req" =>
                    IF after.phase = "sleep"
                    THEN /\ after.cur = me.cur /\ after.attempt = me.attempt
                         /\ after.seen[Len(after.seen)].status = 202
                         /\ after.slept = SleepAfter(me.attempt)
                    ELSE /\ IsSet(results'[r], me.cur + 1)
                         /\ LET e == results'[r][me.cur + 1]
                            IN  /\ Len(e.seen) = me.attempt + 1
                                /\ e.seen[Len(e.seen)].status = 202 => me.attempt = retries

\* C25: when attempt k, counted from 0, is answered 202 and k < retries,
\* exactly one sleep of delays[min(k, len(delays) - 1)] comes before attempt
\* k + 1; the first answer that is no 202 ends the attempts with no further
\* sleep, and no sleep follows the last attempt
C25_SleepBetweenAttempts == []C25_RetryState /\ [][C25_RetryStep]_vars

\* a fetch sleeps 250 ms after its second 202
C25_Witness ==
    \E me \in InFlight :
        /\ me.phase = "sleep" /\ me.attempt = 1 /\ me.slept = 250
        /\ Len(me.seen) = 2 /\ All202(me.seen)

\* ---------------------------------------------------------------------------
\* The worker pool of mapWithConcurrency
\* ---------------------------------------------------------------------------

\* the workers whose fn call has started and not completed
Awaiting == {w \in DOMAIN mWk : mWk[w].phase = "await"}

\* the pool has min(limit, len(items)) workers and at most limit fn calls are
\* in flight
C26_PoolState ==
    /\ mStatus # "idle" => Len(mWk) = Min(mLimit, Len(mItems))
    /\ Cardinality(Awaiting) <= mLimit
    /\ Cardinality({i \in DOMAIN mCalls : mCalls[i] > 0 /\ ~IsSet(mResults, i)}) <= mLimit

\* C26: mapWithConcurrency runs a fixed pool of min(limit, len(items))
\* workers, no worker being added or removed while it runs, and at every
\* moment at most limit fn calls have started and not completed
C26_BoundedPool ==
    /\ []C26_PoolState
    /\ [][mStatus # "idle" => DOMAIN mWk' = DOMAIN mWk]_vars

\* two workers are both in flight on the last two of four items
C26_Witness ==
    /\ mLimit = 2 /\ Len(mItems) = 4
    /\ Cardinality(Awaiting) = 2
    /\ IsSet(mResults, 1) /\ IsSet(mResults, 2)
    /\ mIdx = 4

\* ---------------------------------------------------------------------------
\* The scanned set
\* ---------------------------------------------------------------------------

\* the candidate listing: the names of the first n repositories upstream
\* lists, most recently pushed first, without the forks unless they are asked
\* for
Candidates(n, includeForks) ==
    LET listing == [i \in 1..n |-> RepoRest(i)]
        Keep(repo) == includeForks \/ ~repo.fork
        kept == SelectSeq(listing, Keep)
    IN  [i \in 1..Len(kept) |-> kept[i].full_name]

WarmLeft(w) == w.flying + w.queued + w.old

\* a step in which a prewarm request settles
PrewarmSettles == \E r \in DOMAIN warm : WarmLeft(warm'[r]) < WarmLeft(warm[r])

\* the aggregation can go on whatever the prewarm requests are doing: a call
\* whose workers have all returned can finish
C27_NoWait ==
    \A r \in DOMAIN pc :
        (pc[r] = "scan" /\ \A w \in DOMAIN wk[r] : wk[r][w].phase = "returned")
            => ENABLED Finish(r)

\* a prewarm request that settles, resolved or rejected, leaves the cache,
\* the position of every call, the result arrays and the records alone
C27_PrewarmStep ==
    PrewarmSettles => UNCHANGED <<cache, pc, ret, results, items, idx, wk, opts>>

\* C27: the prewarm is detached: the aggregation does not wait for it, a
\* prewarm request that fails never makes getGitHubStatistics fail, and a
\* prewarm request never writes the cache nor changes a result or a tally,
\* whatever the interleaving of its requests with the scan.
C27_PrewarmIsDetached == []C27_NoWait /\ [][C27_PrewarmStep]_vars

\* a call has returned its record while prewarm requests of its own are
\* still in flight
C27_Witness ==
    \E r \in DOMAIN pc :
        /\ pc[r] = "done"
        /\ warm[r].flying > 0
        /\ ret[r].reposScanned > 0

\* the sum of additions and deletions over the first n merged pull requests
RECURSIVE PrSum(_)
PrSum(n) == IF n <= 0 THEN 0 ELSE PrNode(n).additions + PrNode(n).deletions + PrSum(n - 1)

\* the first page that reports no next page
PrLastPage(total) ==
    CHOOSE p \in 1..(total + 1) :
        /\ ~PrPageOf(total, p).hasNextPage
        /\ \A q \in 1..(p - 1) : PrPageOf(total, q).hasNextPage

\* C29: when getMergedPrLocChanged returns, for every cap maxPrs, the number
\* of pull requests scanned is at most maxPrs, loc is the sum of additions
\* and deletions over the scanned pull requests, the first ones in upstream
\* order, and no page was requested past the first one that reports no next
\* page, which is reached unless the cap stopped the scan before.
C29_CapAndSum ==
    pr.status = "returned" =>
        /\ pr.scanned <= pr.maxPrs
        /\ pr.scanned <= pr.total
        /\ pr.loc = PrSum(pr.scanned)
        /\ pr.page <= PrLastPage(pr.total)
        /\ pr.page < PrLastPage(pr.total) => pr.scanned >= pr.maxPrs

\* the same for the caps of at least one
C29_CapAndSumFromOne ==
    (pr.status \in {"wait", "returned", "threw"} /\ pr.maxPrs >= 1) =>
        /\ pr.scanned <= pr.maxPrs
        /\ pr.scanned <= pr.total
        /\ pr.loc = PrSum(pr.scanned)
        /\ pr.page <= PrLastPage(pr.total)
        /\ (pr.status = "returned" /\ pr.page < PrLastPage(pr.total))
               => pr.scanned >= pr.maxPrs

\* with a cap below one and an account that has merged pull requests, one
\* pull request is scanned
C29_CapZeroScansOne ==
    /\ pr.status = "returned"
    /\ pr.maxPrs <= 0
    /\ pr.total > 0
    /\ pr.scanned = 1

\* the sum of additions and deletions over the first n commits of the i-th
\* repository
RECURSIVE ChSum(_, _)
ChSum(i, n) ==
    IF n <= 0 THEN 0
    ELSE ChNode(i, n).additions + ChNode(i, n).deletions + ChSum(i, n - 1)

\* the commits walked in the first n repositories, and their lines
RECURSIVE ChWalked(_, _)
ChWalked(counts, n) == IF n <= 0 THEN 0 ELSE counts[n] + ChWalked(counts, n - 1)

RECURSIVE ChLines(_, _)
ChLines(counts, n) ==
    IF n <= 0 THEN 0 ELSE ChSum(n, counts[n]) + ChLines(counts, n - 1)

\* what the totals returned are to the commits walked
ChTotalsAgree ==
    /\ ch.reposScanned <= ch.reposLimit
    /\ ch.reposScanned <= Len(ch.repos)
    /\ Len(ch.counts) = ch.reposScanned
    /\ \A i \in 1..Len(ch.counts) : ch.counts[i] <= Max(0, ch.repos[i])
    /\ ch.commitsCounted = ChWalked(ch.counts, Len(ch.counts))
    /\ ch.loc = ChLines(ch.counts, Len(ch.counts))

\* C30: when getCommitLocChangedFromDefaultBranches returns, at most
\* reposLimit repositories were walked, the commits walked in each one are
\* at most maxCommitsPerRepo, commitsCounted is the number of commits walked
\* and loc the sum of additions and deletions over those commits, the first
\* ones of each history.
C30_WalkIsCapped ==
    ch.status = "returned" =>
        /\ ChTotalsAgree
        /\ \A i \in 1..Len(ch.counts) : ch.counts[i] <= ch.maxCommitsPerRepo

\* the same for the caps of at least one
C30_WalkIsCappedFromOne ==
    (ch.status = "returned" /\ ch.maxCommitsPerRepo >= 1) =>
        /\ ChTotalsAgree
        /\ \A i \in 1..Len(ch.counts) : ch.counts[i] <= ch.maxCommitsPerRepo

\* whatever the cap, the totals returned agree with the commits walked
C30_TotalsAgree == ch.status = "returned" => ChTotalsAgree

\* with the cap 0, one commit is walked in a repository that has commits
C30_CapZeroWalksOne ==
    /\ ch.status = "returned"
    /\ ch.maxCommitsPerRepo = 0
    /\ \E i \in 1..Len(ch.counts) : ch.counts[i] = 1

\* the cache holds an entry under key that has not expired: line 18 drops an
\* entry only once the clock is past its expiry
Unexpired(c, key, t) == key \in DOMAIN c /\ ~(t > c[key].expiry)

\* the step in which call r is entered finds an unexpired entry under the
\* stats key of the call
EntersOnHit(r) ==
    /\ starts' # starts
    /\ Unexpired(cache, StatsKey(opts'[r]), now)

\* the call returns the record of the entry and has nothing in flight
ServedFromCache(r) ==
    /\ pc'[r] = "doneCached"
    /\ ret'[r] = cache[StatsKey(opts'[r])].data
    /\ wk'[r] = <<>> /\ items'[r] = <<>>
    /\ cache' = cache

\* a call served from the cache stays returned until the next call is made
C34_ServedState ==
    \A r \in cfg.runs : pc[r] = "doneCached" => wk[r] = <<>> /\ items[r] = <<>>

C34_ServedStep ==
    \A r \in cfg.runs :
        (pc[r] = "doneCached" /\ starts' = starts) => pc'[r] = "doneCached"

\* C34 as stated: a call whose stats key has an unexpired cache entry returns
\* the record of that entry and issues no upstream request, not even the
\* identity check.
C34_HitAnswersAlone ==
    /\ []C34_ServedState
    /\ [][C34_ServedStep]_vars
    /\ [][\A r \in cfg.runs : EntersOnHit(r) => ServedFromCache(r)]_vars

\* C34: a call made while GITHUB_TOKEN is set and whose stats key has an
\* unexpired cache entry returns the record of that entry and issues no
\* upstream request, not even the identity check.
C34_HitAnswersAloneWithToken ==
    /\ []C34_ServedState
    /\ [][C34_ServedStep]_vars
    /\ [][\A r \in cfg.runs : (EntersOnHit(r) /\ token') => ServedFromCache(r)]_vars

\* a call was served from the cache after the clock had advanced
C34_Witness ==
    \E r \in cfg.runs :
        /\ pc[r] = "doneCached" /\ now > 0 /\ token
        /\ Unexpired(cache, StatsKey(opts[r]), now)
        /\ ret[r] = cache[StatsKey(opts[r])].data

\* the calls that returned a record, computed or taken from the cache
Returned == {r \in DOMAIN pc : pc[r] \in {"done", "doneCached"}}

\* C35: for every call that returns a record, after any sequence of earlier
\* calls, the login of the record is the username argument of the call,
\* character for character.
C35_LoginIsArgument == \A r \in Returned : ret[r].login = opts[r].username

\* the login of a record returned is the username argument up to case, and
\* character for character when the call computed the record itself
C35_LoginUpToCase ==
    \A r \in Returned :
        /\ toLowerCase(ret[r].login) = toLowerCase(opts[r].username)
        /\ pc[r] = "done" => ret[r].login = opts[r].username

\* a call was answered from the cache with the record of a call that spelt
\* the username otherwise
C35_OtherSpelling ==
    \E r \in Returned :
        /\ pc[r] = "doneCached"
        /\ ret[r].login # opts[r].username
        /\ toLowerCase(ret[r].login) = toLowerCase(opts[r].username)

\* the lookup of the fn call of worker me found an entry that had not expired
FoundUnexpired(me) == me.looked.had /\ ~(me.looked.at > me.looked.expiry)

\* C36: while an unexpired entry exists under contrib:<fullName>,
\* getContributorStatsForRepo returns the outcome of that entry without any
\* upstream request and leaves the entry as it is, and the run reports the
\* repository with that outcome; so a repository cached as pending or failed
\* is reported so by every run that fetches it until the short TTL is over.
C36_CachedOutcomeServed ==
    \A r \in DOMAIN wk : \A w \in DOMAIN wk[r] :
        LET me == wk[r][w]
            key == <<"contrib", items[r][me.cur + 1]>>
        IN  (me.phase \notin {"returned"} /\ FoundUnexpired(me)) =>
                /\ me.phase = "ret"
                /\ me.reqs = 0 /\ me.seen = <<>>
                /\ me.out = me.looked.data
                /\ key \in DOMAIN cache
                /\ cache[key] = [data |-> me.looked.data, expiry |-> me.looked.expiry]

\* a fetch found a pending outcome cached earlier, the clock having advanced
\* since it was written, and returns it without a request
C36_Witness ==
    \E r \in DOMAIN wk : \E w \in DOMAIN wk[r] :
        /\ FoundUnexpired(wk[r][w])
        /\ wk[r][w].looked.data.status = "pending"
        /\ wk[r][w].looked.at > wk[r][w].looked.expiry - SHORT_CACHE_TTL
        /\ wk[r][w].phase = "ret"
        /\ wk[r][w].reqs = 0

\* at the return nothing is left: every slot is written, every worker has
\* returned and the cursor is past the last index
C37_NothingLeft ==
    (mStatus = "returned" /\ mLimit >= 1) =>
        /\ Len(mResults) = Len(mItems)
        /\ \A i \in 1..Len(mItems) : IsSet(mResults, i)
        /\ \A w \in DOMAIN mWk : mWk[w].phase = "returned"
        /\ mIdx >= Len(mItems)

\* C37: if every fn call completes in the end without failing,
\* mapWithConcurrency returns in the end for every limit >= 1, and when it
\* returns every slot of the result sequence has been written, no worker is
\* still running and no index is left.
C37_ReturnsComplete ==
    /\ []C37_NothingLeft
    /\ (mLimit >= 1) ~> (mStatus = "returned")

\* a call with more items than workers has returned
C37_Witness ==
    /\ mStatus = "returned"
    /\ mLimit >= 1
    /\ Len(mItems) > mLimit
    /\ \A i \in 1..Len(mItems) : IsSet(mResults, i)

\* the workers of the scan of call r that have not returned
Running(r) == {w \in DOMAIN wk[r] : wk[r][w].phase # "returned"}

\* the concurrency of every call is at least 4, and the pool of its scan
\* has min(concurrency, n) workers
C38_PoolOfRun ==
    \A r \in cfg.runs :
        /\ opts[r].concurrency >= 4
        /\ opts[r].concurrency >= opts[r].given
        /\ pc[r] = "scan" => Len(wk[r]) = Min(opts[r].concurrency, Len(items[r]))

\* the tally loop runs only once every slot is written: when the workers
\* have all returned no slot is left, and the call then returns its record
C38_TallyReadsWritten ==
    \A r \in cfg.runs :
        (pc[r] = "scan" /\ Running(r) = {}) =>
            /\ \A i \in 1..Len(items[r]) : IsSet(results[r], i)
            /\ Len(results[r]) = Len(items[r])
            /\ pc'[r] \in {"scan", "done"}

Outstanding(r) ==
    Cardinality({w \in DOMAIN wk[r] : wk[r][w].phase = "req"}) + warm[r].flying

\* C39: during one run the number of requests to the contributor-statistics
\* endpoint that are outstanding at once never exceeds the concurrency of
\* the run.
C39_OutstandingWithinLimit ==
    \A r \in cfg.runs : pc[r] = "scan" => Outstanding(r) <= opts[r].concurrency

\* the requests of the scan alone stay within the concurrency of the run, and
\* those of the prewarm within twice that
C39_EachPoolWithinItsLimit ==
    \A r \in cfg.runs :
        pc[r] = "scan" =>
            /\ Cardinality({w \in DOMAIN wk[r] : wk[r][w].phase = "req"})
                   <= opts[r].concurrency
            /\ warm[r].flying <= 2 * opts[r].concurrency
            /\ Outstanding(r) <= 2 * Len(items[r])

\* a run of concurrency 4 has six requests outstanding: three of the scan and
\* three of the prewarm
C39_SixOutstanding ==
    \E r \in cfg.runs :
        /\ pc[r] = "scan"
        /\ opts[r].concurrency = 4
        /\ warm[r].flying = 3 /\ warm[r].old = 0
        /\ Outstanding(r) = 6

\* a run that scanned no repository stores its record under its stats key,
\* to expire CACHE_TTL later
C40_ZeroRunStored ==
    \A r \in cfg.runs :
        (Finishing(r) /\ ret'[r].reposScanned = 0) =>
            /\ StatsKey(opts[r]) \in DOMAIN cache'
            /\ cache'[StatsKey(opts[r])] = [data |-> ret'[r], expiry |-> now + CACHE_TTL]

\* call r is entered while the record of a run that scanned nothing is
\* cached under its key and has not expired
EntersOnZeroRecord(r) ==
    /\ EntersOnHit(r)
    /\ cache[StatsKey(opts'[r])].data.reposScanned = 0

\* C40 as stated: a run that scans no repository takes its success rate as 1
\* and stores its record with the long TTL, and every later call with the
\* same key within that TTL returns that record without contacting upstream.
C40_ZeroRunServedLater ==
    /\ [][C40_ZeroRunStored]_vars
    /\ [][\A r \in cfg.runs : EntersOnZeroRecord(r) => ServedFromCache(r)]_vars

\* C40: a run that scans no repository takes its success rate as 1 and
\* stores its record with the long TTL, and every later call with the same
\* key within that TTL, made while GITHUB_TOKEN is set, returns that record
\* without contacting upstream.
C40_ZeroRunServedLaterWithToken ==
    /\ [][C40_ZeroRunStored]_vars
    /\ [][\A r \in cfg.runs :
            (EntersOnZeroRecord(r) /\ token') => ServedFromCache(r)]_vars

\* a call was answered with the record of a run that scanned nothing, later
\* than the short TTL after that run
C40_Witness ==
    \E r \in cfg.runs :
        /\ pc[r] = "doneCached" /\ token
        /\ ret[r].reposScanned = 0
        /\ now >= SHORT_CACHE_TTL
        /\ Unexpired(cache, StatsKey(opts[r]), now)
-----------------------------------------------------------------------------
\* the repositories among the first n given that answer a success status
\* and a numeric count, and the sum of their counts
VwUsable(n) == {i \in 1..Min(n, Len(vw.repos)) : vw.repos[i] = "count"}

RECURSIVE VwSum(_)
VwSum(S) ==
    IF S = {} THEN 0
    ELSE LET i == CHOOSE x \in S : TRUE IN VwCount(i) + VwSum(S \ {i})

\* the summary a returned call reports agrees with a scanned prefix of n
\* repositories
VwSummaryOf(n) ==
    /\ vw.attempted = n
    /\ vw.succeeded = Cardinality(VwUsable(n))
    /\ vw.totalViews = VwSum(VwUsable(n))
    /\ vw.succeeded <= vw.attempted

\* C31: when getRepoViews14Days returns, attempted is min(reposLimit,
\* len(repos)), succeeded is the number of repositories of that prefix that
\* answered a success status and a numeric count, totalViews is the sum of
\* their counts, and succeeded <= attempted; a repository that fails or has
\* no numeric count does not stop the loop (the call always gets to the end
\* of the prefix).
C31_Summary ==
    vw.status = "returned" =>
        VwSummaryOf(Min(vw.reposLimit, Len(vw.repos)))

\* C31, for a reposLimit that is not negative: the claim as stated.
C31_SummaryFromZero ==
    (vw.status = "returned" /\ vw.reposLimit >= 0) =>
        VwSummaryOf(Min(vw.reposLimit, Len(vw.repos)))

\* C31, for every reposLimit: the tallies agree with the prefix that was
\* attempted, whatever its size, in every state of the loop, and the loop
\* never attempts more than the slice holds.
C31_TalliesAgree ==
    vw.status \in {"wait", "returned"} =>
        /\ VwSummaryOf(vw.attempted)
        /\ vw.attempted <= Len(vw.slice)
        /\ vw.status = "returned" => vw.attempted = Len(vw.slice)

\* C31: a negative reposLimit attempts all repositories but the last.
C31_NegativeLimit ==
    /\ vw.status = "returned"
    /\ vw.reposLimit = -1
    /\ Len(vw.repos) = 3
    /\ vw.attempted = 2

\* C31: a call went past a rejected fetch, a body that does not parse, a
\* status that is not a success and a body without a count, and counted the
\* repository after them.
C31_SkippedAndWentOn ==
    /\ vw.status = "returned"
    /\ vw.reposLimit >= 0
    /\ vw.attempted = 3
    /\ vw.repos[1] # "count" /\ vw.repos[2] # "count" /\ vw.repos[3] = "count"
    /\ vw.succeeded = 1

-----------------------------------------------------------------------------
\* the lowercase full names of a listing, and the first and the last entry
\* of a listing with a lowercase name
MgKeysOf(listing) == {toLowerCase(listing[i]) : i \in 1..Len(listing)}

MgFirst(listing, key) ==
    CHOOSE i \in 1..Len(listing) :
        /\ toLowerCase(listing[i]) = key
        /\ \A h \in 1..(i - 1) : toLowerCase(listing[h]) # key

MgLast(listing, key) ==
    CHOOSE i \in 1..Len(listing) :
        /\ toLowerCase(listing[i]) = key
        /\ \A h \in (i + 1)..Len(listing) : toLowerCase(listing[h]) # key

\* the contributed-to listing was read to its end and merged
MgMerged == mg.status = "returned" /\ mg.includeContributedRepos /\ ~mg.failed

\* C32, first part: the merged Map holds one entry per lowercase full name
\* of the listings that went into it, under the lowercase of its own name.
C32_OneEntryPerKey ==
    mg.status = "returned" =>
        /\ \A k, h \in 1..Len(mg.repoSet) : mg.repoSet[k].key = mg.repoSet[h].key => k = h
        /\ \A k \in 1..Len(mg.repoSet) :
             mg.repoSet[k].key = toLowerCase(mg.repoSet[k].value.fullName)
        /\ {mg.repoSet[k].key : k \in 1..Len(mg.repoSet)}
             = MgKeysOf(mg.accessible)
                 \cup (IF MgMerged THEN MgKeysOf(mg.contributed) ELSE {})

\* C32, second part: the first writer of a key wins: the entry of a key is
\* the one made of the first reference with that lowercase name, the
\* accessible listing coming before the contributed-to listing.
C32_FirstWriterWins ==
    mg.status = "returned" =>
        \A k \in 1..Len(mg.repoSet) :
            LET key == mg.repoSet[k].key
            IN  mg.repoSet[k].value =
                  IF key \in MgKeysOf(mg.accessible)
                  THEN MgRepo(mg.accessible[MgFirst(mg.accessible, key)],
                              MgFirst(mg.accessible, key))
                  ELSE ContributedRepo(mg.contributed[MgFirst(mg.contributed, key)])

\* C32, third part: an entry that came from the contributed-to listing has
\* stars = 0, forks = 0, isFork = false and isPrivate = false.
C32_ContributedDefaults ==
    mg.status = "returned" =>
        \A k \in 1..Len(mg.repoSet) :
            mg.repoSet[k].key \notin MgKeysOf(mg.accessible) =>
                /\ mg.repoSet[k].value.stars = 0
                /\ mg.repoSet[k].value.forks = 0
                /\ mg.repoSet[k].value.isFork = FALSE
                /\ mg.repoSet[k].value.isPrivate = FALSE

\* C32: the merge of the accessible and the contributed-to listing holds one
\* entry per lowercase full name, the first writer of a key wins for the
\* metadata (a later reference with the same lowercase name never replaces
\* it), and the entries added from the contributed-to listing have stars =
\* 0, forks = 0, isFork = false, isPrivate = false.
C32_Merge ==
    /\ C32_OneEntryPerKey
    /\ C32_FirstWriterWins
    /\ C32_ContributedDefaults

\* C32, what the code does: a contributed-to reference never replaces an
\* entry, and among the accessible entries of one lowercase name the last
\* one stays.
C32_LastAccessibleStays ==
    mg.status = "returned" =>
        \A k \in 1..Len(mg.repoSet) :
            LET key == mg.repoSet[k].key
            IN  mg.repoSet[k].value =
                  IF key \in MgKeysOf(mg.accessible)
                  THEN MgRepo(mg.accessible[MgLast(mg.accessible, key)],
                              MgLast(mg.accessible, key))
                  ELSE ContributedRepo(mg.contributed[MgFirst(mg.contributed, key)])

\* C32: the accessible listing held "o/a" twice and the Map holds the
\* metadata of the second entry.
C32_LaterAccessibleReplaced ==
    /\ mg.status = "returned"
    /\ mg.accessible = <<"o/a", "O/A">>
    /\ Len(mg.repoSet) = 1
    /\ mg.repoSet[1].value = MgRepo("O/A", 2)

\* C32: a merge kept an accessible entry against a contributed-to reference
\* of the same lowercase name and added another contributed-to name.
C32_MergedBoth ==
    /\ MgMerged
    /\ mg.accessible = <<"o/a">>
    /\ mg.contributed = <<"O/A", "o/b">>
    /\ Len(mg.repoSet) = 2
    /\ mg.repoSet[1].value = MgRepo("o/a", 1)
    /\ mg.repoSet[2].value = ContributedRepo("o/b")

\* C33: when the contributed-to query fails on any page, the aggregation
\* goes on and the candidates are the accessible repositories only: the Map
\* holds one entry per lowercase name of the accessible listing, each made
\* of an accessible entry, and no name of the pages already read.
C33_FailureLeavesAccessible ==
    mg.failed =>
        /\ mg.status = "returned"
        /\ {mg.repoSet[k].key : k \in 1..Len(mg.repoSet)} = MgKeysOf(mg.accessible)
        /\ Len(mg.repoSet) = Cardinality(MgKeysOf(mg.accessible))
        /\ \A k \in 1..Len(mg.repoSet) :
             \E i \in 1..Len(mg.accessible) :
                 mg.repoSet[k].value = MgRepo(mg.accessible[i], i)
        /\ mg.reposAll = ReposAll(mg.repoSet, mg.reposLimit)
        /\ \A k \in 1..Len(mg.reposAll) : mg.reposAll[k].isPrivate

\* C33: the second page failed after the first one had brought a name the
\* accessible listing does not hold.
C33_Witness ==
    /\ mg.failed
    /\ mg.status = "returned"
    /\ mg.page = 2
    /\ \E j \in 1..Len(mg.names) :
         toLowerCase(mg.names[j]) \notin MgKeysOf(mg.accessible)
    /\ Len(mg.repoSet) = 1

=============================================================================
